---- MODULE Spec2Model ----
(***************************************************************************)
(* Radix-4 complex FFT/IFFT for Q31 data (riscv_cfft_radix4_q31.c):        *)
(* the dispatcher riscv_cfft_radix4_q31, the forward engine                *)
(* riscv_radix4_butterfly_q31, the inverse engine                          *)
(* riscv_radix4_butterfly_inverse_q31 and the bit-reversal pass.           *)
(*                                                                         *)
(* One action is one iteration of a butterfly loop of the C code.  All     *)
(* sample values are 32-bit two's complement integers; every sum and       *)
(* difference is reduced modulo 2^32, every product is the 64-bit product  *)
(* shifted right by 32.                                                    *)
(***************************************************************************)
EXTENDS Integers, Sequences, FiniteSets, TLC

(***************************************************************************)
(* 32-bit arithmetic.  The model checker's integers are 32 bits wide and   *)
(* trap on overflow, so the wrapping operations are written so that no     *)
(* intermediate value leaves [-2^31, 2^31 - 1].                            *)
(***************************************************************************)
MaxInt32 == 2147483647

MinInt32 == -2147483647 - 1

RECURSIVE Pow2(_)

Pow2(n) == IF n = 0 THEN 1 ELSE 2 * Pow2(n - 1)

\* an addition that saturates: the sum clamped to [-2^31, 2^31 - 1]
Add32Saturating(a, b) ==
  CHOOSE r \in
    {IF x >= 0 /\ y > MaxInt32 - x THEN MaxInt32
     ELSE IF x < 0 /\ y < MinInt32 - x THEN MinInt32
     ELSE x + y : x \in {a}, y \in {b}} : TRUE

\* q31_t a + b, reduced modulo 2^32 into [-2^31, 2^31 - 1].  (The operands are
\* bound as elements of singleton sets, here and in Shl1 and MulHi, so that each
\* is evaluated once however deeply the operations nest.)
Add32(a, b) ==
  CHOOSE r \in
    {IF x >= 0 /\ y > MaxInt32 - x THEN (x + MinInt32) + (y + MinInt32)
     ELSE IF x < 0 /\ y < MinInt32 - x THEN (x - MinInt32) + (y - MinInt32)
     ELSE x + y : x \in {a}, y \in {b}} : TRUE

\* q31_t a - b, reduced modulo 2^32: a + ~b + 1
Sub32(a, b) == Add32(Add32(a, (-1) - b), 1)

\* q31_t a >> n (arithmetic shift: floor division by 2^n)
Shr(a, n) == a \div Pow2(n)

\* q31_t a << 1u, reduced modulo 2^32
Shl1(a) == CHOOSE r \in {Add32(x, x) : x \in {a}} : TRUE

\* floor((x + y + z) / 2^16) for |x|, |y| < 2^31 and 0 <= z < 2^16
SumHi16(x, y, z) ==
  (x \div 65536) + (y \div 65536) + (((x % 65536) + (y % 65536) + z) \div 65536)

\* a product that uses the high 16 bits of its operands only
MulHiOfHighHalves(a, b) ==
  CHOOSE r \in {(x \div 65536) * (y \div 65536) : x \in {a}, y \in {b}} : TRUE

\* (int32_t) (((q63_t) a * b) >> 32): the high word of the 64-bit product,
\* computed on 16-bit and 8-bit limbs
MulHi(a, b) ==
  CHOOSE r \in
    {LET a1 == x \div 65536
         a0 == x % 65536
         b1 == y \div 65536
         b0 == y % 65536
         a01 == a0 \div 256
         a00 == a0 % 256
         lo16 == ((a01 * b0) + ((a00 * b0) \div 256)) \div 256
     IN  (a1 * b1) + SumHi16(a1 * b0, a0 * b1, lo16) : x \in {a}, y \in {b}} : TRUE

(***************************************************************************)
(* Tables.  twiddleCoef_q31 holds (cosine, sine) pairs cos(2*pi*i/1024)    *)
(* and sin(2*pi*i/1024) in Q31, pair i at scalar offsets 2i and 2i+1, for  *)
(* i = 0 .. 3*1024/4 - 1; shorter transforms read it through the stride    *)
(* twidCoefModifier = 1024 / fftLen.                                       *)
(***************************************************************************)
TableLog2 == 10

TableLen == Pow2(TableLog2)

twiddleCoef_q31 == <<
  2147483647, 0, 2147443222, 13176712, 2147321946, 26352928, 2147119825, 39528151,
  2146836866, 52701887, 2146473080, 65873638, 2146028480, 79042909, 2145503083, 92209205,
  2144896910, 105372028, 2144209982, 118530885, 2143442326, 131685278, 2142593971, 144834714,
  2141664948, 157978697, 2140655293, 171116733, 2139565043, 184248325, 2138394240, 197372981,
  2137142927, 210490206, 2135811153, 223599506, 2134398966, 236700388, 2132906420, 249792358,
  2131333572, 262874923, 2129680480, 275947592, 2127947206, 289009871, 2126133817, 302061269,
  2124240380, 315101295, 2122266967, 328129457, 2120213651, 341145265, 2118080511, 354148230,
  2115867626, 367137861, 2113575080, 380113669, 2111202959, 393075166, 2108751352, 406021865,
  2106220352, 418953276, 2103610054, 431868915, 2100920556, 444768294, 2098151960, 457650927,
  2095304370, 470516330, 2092377892, 483364019, 2089372638, 496193509, 2086288720, 509004318,
  2083126254, 521795963, 2079885360, 534567963, 2076566160, 547319836, 2073168777, 560051104,
  2069693342, 572761285, 2066139983, 585449903, 2062508835, 598116479, 2058800036, 610760536,
  2055013723, 623381598, 2051150040, 635979190, 2047209133, 648552838, 2043191150, 661102068,
  2039096241, 673626408, 2034924562, 686125387, 2030676269, 698598533, 2026351522, 711045377,
  2021950484, 723465451, 2017473321, 735858287, 2012920201, 748223418, 2008291295, 760560380,
  2003586779, 772868706, 1998806829, 785147934, 1993951625, 797397602, 1989021350, 809617249,
  1984016189, 821806413, 1978936331, 833964638, 1973781967, 846091463, 1968553292, 858186435,
  1963250501, 870249095, 1957873796, 882278992, 1952423377, 894275671, 1946899451, 906238681,
  1941302225, 918167572, 1935631910, 930061894, 1929888720, 941921200, 1924072871, 953745043,
  1918184581, 965532978, 1912224073, 977284562, 1906191570, 988999351, 1900087301, 1000676905,
  1893911494, 1012316784, 1887664383, 1023918550, 1881346202, 1035481766, 1874957189, 1047005996,
  1868497586, 1058490808, 1861967634, 1069935768, 1855367581, 1081340445, 1848697674, 1092704411,
  1841958164, 1104027237, 1835149306, 1115308496, 1828271356, 1126547765, 1821324572, 1137744621,
  1814309216, 1148898640, 1807225553, 1160009405, 1800073849, 1171076495, 1792854372, 1182099496,
  1785567396, 1193077991, 1778213194, 1204011567, 1770792044, 1214899813, 1763304224, 1225742318,
  1755750017, 1236538675, 1748129707, 1247288478, 1740443581, 1257991320, 1732691928, 1268646800,
  1724875040, 1279254516, 1716993211, 1289814068, 1709046739, 1300325060, 1701035922, 1310787095,
  1692961062, 1321199781, 1684822463, 1331562723, 1676620432, 1341875533, 1668355276, 1352137822,
  1660027308, 1362349204, 1651636841, 1372509294, 1643184191, 1382617710, 1634669676, 1392674072,
  1626093616, 1402678000, 1617456335, 1412629117, 1608758157, 1422527051, 1599999411, 1432371426,
  1591180426, 1442161874, 1582301533, 1451898025, 1573363068, 1461579514, 1564365367, 1471205974,
  1555308768, 1480777044, 1546193612, 1490292364, 1537020244, 1499751576, 1527789007, 1509154322,
  1518500250, 1518500250, 1509154322, 1527789007, 1499751576, 1537020244, 1490292364, 1546193612,
  1480777044, 1555308768, 1471205974, 1564365367, 1461579514, 1573363068, 1451898025, 1582301533,
  1442161874, 1591180426, 1432371426, 1599999411, 1422527051, 1608758157, 1412629117, 1617456335,
  1402678000, 1626093616, 1392674072, 1634669676, 1382617710, 1643184191, 1372509294, 1651636841,
  1362349204, 1660027308, 1352137822, 1668355276, 1341875533, 1676620432, 1331562723, 1684822463,
  1321199781, 1692961062, 1310787095, 1701035922, 1300325060, 1709046739, 1289814068, 1716993211,
  1279254516, 1724875040, 1268646800, 1732691928, 1257991320, 1740443581, 1247288478, 1748129707,
  1236538675, 1755750017, 1225742318, 1763304224, 1214899813, 1770792044, 1204011567, 1778213194,
  1193077991, 1785567396, 1182099496, 1792854372, 1171076495, 1800073849, 1160009405, 1807225553,
  1148898640, 1814309216, 1137744621, 1821324572, 1126547765, 1828271356, 1115308496, 1835149306,
  1104027237, 1841958164, 1092704411, 1848697674, 1081340445, 1855367581, 1069935768, 1861967634,
  1058490808, 1868497586, 1047005996, 1874957189, 1035481766, 1881346202, 1023918550, 1887664383,
  1012316784, 1893911494, 1000676905, 1900087301, 988999351, 1906191570, 977284562, 1912224073,
  965532978, 1918184581, 953745043, 1924072871, 941921200, 1929888720, 930061894, 1935631910,
  918167572, 1941302225, 906238681, 1946899451, 894275671, 1952423377, 882278992, 1957873796,
  870249095, 1963250501, 858186435, 1968553292, 846091463, 1973781967, 833964638, 1978936331,
  821806413, 1984016189, 809617249, 1989021350, 797397602, 1993951625, 785147934, 1998806829,
  772868706, 2003586779, 760560380, 2008291295, 748223418, 2012920201, 735858287, 2017473321,
  723465451, 2021950484, 711045377, 2026351522, 698598533, 2030676269, 686125387, 2034924562,
  673626408, 2039096241, 661102068, 2043191150, 648552838, 2047209133, 635979190, 2051150040,
  623381598, 2055013723, 610760536, 2058800036, 598116479, 2062508835, 585449903, 2066139983,
  572761285, 2069693342, 560051104, 2073168777, 547319836, 2076566160, 534567963, 2079885360,
  521795963, 2083126254, 509004318, 2086288720, 496193509, 2089372638, 483364019, 2092377892,
  470516330, 2095304370, 457650927, 2098151960, 444768294, 2100920556, 431868915, 2103610054,
  418953276, 2106220352, 406021865, 2108751352, 393075166, 2111202959, 380113669, 2113575080,
  367137861, 2115867626, 354148230, 2118080511, 341145265, 2120213651, 328129457, 2122266967,
  315101295, 2124240380, 302061269, 2126133817, 289009871, 2127947206, 275947592, 2129680480,
  262874923, 2131333572, 249792358, 2132906420, 236700388, 2134398966, 223599506, 2135811153,
  210490206, 2137142927, 197372981, 2138394240, 184248325, 2139565043, 171116733, 2140655293,
  157978697, 2141664948, 144834714, 2142593971, 131685278, 2143442326, 118530885, 2144209982,
  105372028, 2144896910, 92209205, 2145503083, 79042909, 2146028480, 65873638, 2146473080,
  52701887, 2146836866, 39528151, 2147119825, 26352928, 2147321946, 13176712, 2147443222,
  0, 2147483647, -13176712, 2147443222, -26352928, 2147321946, -39528151, 2147119825,
  -52701887, 2146836866, -65873638, 2146473080, -79042909, 2146028480, -92209205, 2145503083,
  -105372028, 2144896910, -118530885, 2144209982, -131685278, 2143442326, -144834714, 2142593971,
  -157978697, 2141664948, -171116733, 2140655293, -184248325, 2139565043, -197372981, 2138394240,
  -210490206, 2137142927, -223599506, 2135811153, -236700388, 2134398966, -249792358, 2132906420,
  -262874923, 2131333572, -275947592, 2129680480, -289009871, 2127947206, -302061269, 2126133817,
  -315101295, 2124240380, -328129457, 2122266967, -341145265, 2120213651, -354148230, 2118080511,
  -367137861, 2115867626, -380113669, 2113575080, -393075166, 2111202959, -406021865, 2108751352,
  -418953276, 2106220352, -431868915, 2103610054, -444768294, 2100920556, -457650927, 2098151960,
  -470516330, 2095304370, -483364019, 2092377892, -496193509, 2089372638, -509004318, 2086288720,
  -521795963, 2083126254, -534567963, 2079885360, -547319836, 2076566160, -560051104, 2073168777,
  -572761285, 2069693342, -585449903, 2066139983, -598116479, 2062508835, -610760536, 2058800036,
  -623381598, 2055013723, -635979190, 2051150040, -648552838, 2047209133, -661102068, 2043191150,
  -673626408, 2039096241, -686125387, 2034924562, -698598533, 2030676269, -711045377, 2026351522,
  -723465451, 2021950484, -735858287, 2017473321, -748223418, 2012920201, -760560380, 2008291295,
  -772868706, 2003586779, -785147934, 1998806829, -797397602, 1993951625, -809617249, 1989021350,
  -821806413, 1984016189, -833964638, 1978936331, -846091463, 1973781967, -858186435, 1968553292,
  -870249095, 1963250501, -882278992, 1957873796, -894275671, 1952423377, -906238681, 1946899451,
  -918167572, 1941302225, -930061894, 1935631910, -941921200, 1929888720, -953745043, 1924072871,
  -965532978, 1918184581, -977284562, 1912224073, -988999351, 1906191570, -1000676905, 1900087301,
  -1012316784, 1893911494, -1023918550, 1887664383, -1035481766, 1881346202, -1047005996, 1874957189,
  -1058490808, 1868497586, -1069935768, 1861967634, -1081340445, 1855367581, -1092704411, 1848697674,
  -1104027237, 1841958164, -1115308496, 1835149306, -1126547765, 1828271356, -1137744621, 1821324572,
  -1148898640, 1814309216, -1160009405, 1807225553, -1171076495, 1800073849, -1182099496, 1792854372,
  -1193077991, 1785567396, -1204011567, 1778213194, -1214899813, 1770792044, -1225742318, 1763304224,
  -1236538675, 1755750017, -1247288478, 1748129707, -1257991320, 1740443581, -1268646800, 1732691928,
  -1279254516, 1724875040, -1289814068, 1716993211, -1300325060, 1709046739, -1310787095, 1701035922,
  -1321199781, 1692961062, -1331562723, 1684822463, -1341875533, 1676620432, -1352137822, 1668355276,
  -1362349204, 1660027308, -1372509294, 1651636841, -1382617710, 1643184191, -1392674072, 1634669676,
  -1402678000, 1626093616, -1412629117, 1617456335, -1422527051, 1608758157, -1432371426, 1599999411,
  -1442161874, 1591180426, -1451898025, 1582301533, -1461579514, 1573363068, -1471205974, 1564365367,
  -1480777044, 1555308768, -1490292364, 1546193612, -1499751576, 1537020244, -1509154322, 1527789007,
  -1518500250, 1518500250, -1527789007, 1509154322, -1537020244, 1499751576, -1546193612, 1490292364,
  -1555308768, 1480777044, -1564365367, 1471205974, -1573363068, 1461579514, -1582301533, 1451898025,
  -1591180426, 1442161874, -1599999411, 1432371426, -1608758157, 1422527051, -1617456335, 1412629117,
  -1626093616, 1402678000, -1634669676, 1392674072, -1643184191, 1382617710, -1651636841, 1372509294,
  -1660027308, 1362349204, -1668355276, 1352137822, -1676620432, 1341875533, -1684822463, 1331562723,
  -1692961062, 1321199781, -1701035922, 1310787095, -1709046739, 1300325060, -1716993211, 1289814068,
  -1724875040, 1279254516, -1732691928, 1268646800, -1740443581, 1257991320, -1748129707, 1247288478,
  -1755750017, 1236538675, -1763304224, 1225742318, -1770792044, 1214899813, -1778213194, 1204011567,
  -1785567396, 1193077991, -1792854372, 1182099496, -1800073849, 1171076495, -1807225553, 1160009405,
  -1814309216, 1148898640, -1821324572, 1137744621, -1828271356, 1126547765, -1835149306, 1115308496,
  -1841958164, 1104027237, -1848697674, 1092704411, -1855367581, 1081340445, -1861967634, 1069935768,
  -1868497586, 1058490808, -1874957189, 1047005996, -1881346202, 1035481766, -1887664383, 1023918550,
  -1893911494, 1012316784, -1900087301, 1000676905, -1906191570, 988999351, -1912224073, 977284562,
  -1918184581, 965532978, -1924072871, 953745043, -1929888720, 941921200, -1935631910, 930061894,
  -1941302225, 918167572, -1946899451, 906238681, -1952423377, 894275671, -1957873796, 882278992,
  -1963250501, 870249095, -1968553292, 858186435, -1973781967, 846091463, -1978936331, 833964638,
  -1984016189, 821806413, -1989021350, 809617249, -1993951625, 797397602, -1998806829, 785147934,
  -2003586779, 772868706, -2008291295, 760560380, -2012920201, 748223418, -2017473321, 735858287,
  -2021950484, 723465451, -2026351522, 711045377, -2030676269, 698598533, -2034924562, 686125387,
  -2039096241, 673626408, -2043191150, 661102068, -2047209133, 648552838, -2051150040, 635979190,
  -2055013723, 623381598, -2058800036, 610760536, -2062508835, 598116479, -2066139983, 585449903,
  -2069693342, 572761285, -2073168777, 560051104, -2076566160, 547319836, -2079885360, 534567963,
  -2083126254, 521795963, -2086288720, 509004318, -2089372638, 496193509, -2092377892, 483364019,
  -2095304370, 470516330, -2098151960, 457650927, -2100920556, 444768294, -2103610054, 431868915,
  -2106220352, 418953276, -2108751352, 406021865, -2111202959, 393075166, -2113575080, 380113669,
  -2115867626, 367137861, -2118080511, 354148230, -2120213651, 341145265, -2122266967, 328129457,
  -2124240380, 315101295, -2126133817, 302061269, -2127947206, 289009871, -2129680480, 275947592,
  -2131333572, 262874923, -2132906420, 249792358, -2134398966, 236700388, -2135811153, 223599506,
  -2137142927, 210490206, -2138394240, 197372981, -2139565043, 184248325, -2140655293, 171116733,
  -2141664948, 157978697, -2142593971, 144834714, -2143442326, 131685278, -2144209982, 118530885,
  -2144896910, 105372028, -2145503083, 92209205, -2146028480, 79042909, -2146473080, 65873638,
  -2146836866, 52701887, -2147119825, 39528151, -2147321946, 26352928, -2147443222, 13176712,
  MinInt32, 0, -2147443222, -13176712, -2147321946, -26352928, -2147119825, -39528151,
  -2146836866, -52701887, -2146473080, -65873638, -2146028480, -79042909, -2145503083, -92209205,
  -2144896910, -105372028, -2144209982, -118530885, -2143442326, -131685278, -2142593971, -144834714,
  -2141664948, -157978697, -2140655293, -171116733, -2139565043, -184248325, -2138394240, -197372981,
  -2137142927, -210490206, -2135811153, -223599506, -2134398966, -236700388, -2132906420, -249792358,
  -2131333572, -262874923, -2129680480, -275947592, -2127947206, -289009871, -2126133817, -302061269,
  -2124240380, -315101295, -2122266967, -328129457, -2120213651, -341145265, -2118080511, -354148230,
  -2115867626, -367137861, -2113575080, -380113669, -2111202959, -393075166, -2108751352, -406021865,
  -2106220352, -418953276, -2103610054, -431868915, -2100920556, -444768294, -2098151960, -457650927,
  -2095304370, -470516330, -2092377892, -483364019, -2089372638, -496193509, -2086288720, -509004318,
  -2083126254, -521795963, -2079885360, -534567963, -2076566160, -547319836, -2073168777, -560051104,
  -2069693342, -572761285, -2066139983, -585449903, -2062508835, -598116479, -2058800036, -610760536,
  -2055013723, -623381598, -2051150040, -635979190, -2047209133, -648552838, -2043191150, -661102068,
  -2039096241, -673626408, -2034924562, -686125387, -2030676269, -698598533, -2026351522, -711045377,
  -2021950484, -723465451, -2017473321, -735858287, -2012920201, -748223418, -2008291295, -760560380,
  -2003586779, -772868706, -1998806829, -785147934, -1993951625, -797397602, -1989021350, -809617249,
  -1984016189, -821806413, -1978936331, -833964638, -1973781967, -846091463, -1968553292, -858186435,
  -1963250501, -870249095, -1957873796, -882278992, -1952423377, -894275671, -1946899451, -906238681,
  -1941302225, -918167572, -1935631910, -930061894, -1929888720, -941921200, -1924072871, -953745043,
  -1918184581, -965532978, -1912224073, -977284562, -1906191570, -988999351, -1900087301, -1000676905,
  -1893911494, -1012316784, -1887664383, -1023918550, -1881346202, -1035481766, -1874957189, -1047005996,
  -1868497586, -1058490808, -1861967634, -1069935768, -1855367581, -1081340445, -1848697674, -1092704411,
  -1841958164, -1104027237, -1835149306, -1115308496, -1828271356, -1126547765, -1821324572, -1137744621,
  -1814309216, -1148898640, -1807225553, -1160009405, -1800073849, -1171076495, -1792854372, -1182099496,
  -1785567396, -1193077991, -1778213194, -1204011567, -1770792044, -1214899813, -1763304224, -1225742318,
  -1755750017, -1236538675, -1748129707, -1247288478, -1740443581, -1257991320, -1732691928, -1268646800,
  -1724875040, -1279254516, -1716993211, -1289814068, -1709046739, -1300325060, -1701035922, -1310787095,
  -1692961062, -1321199781, -1684822463, -1331562723, -1676620432, -1341875533, -1668355276, -1352137822,
  -1660027308, -1362349204, -1651636841, -1372509294, -1643184191, -1382617710, -1634669676, -1392674072,
  -1626093616, -1402678000, -1617456335, -1412629117, -1608758157, -1422527051, -1599999411, -1432371426,
  -1591180426, -1442161874, -1582301533, -1451898025, -1573363068, -1461579514, -1564365367, -1471205974,
  -1555308768, -1480777044, -1546193612, -1490292364, -1537020244, -1499751576, -1527789007, -1509154322,
  -1518500250, -1518500250, -1509154322, -1527789007, -1499751576, -1537020244, -1490292364, -1546193612,
  -1480777044, -1555308768, -1471205974, -1564365367, -1461579514, -1573363068, -1451898025, -1582301533,
  -1442161874, -1591180426, -1432371426, -1599999411, -1422527051, -1608758157, -1412629117, -1617456335,
  -1402678000, -1626093616, -1392674072, -1634669676, -1382617710, -1643184191, -1372509294, -1651636841,
  -1362349204, -1660027308, -1352137822, -1668355276, -1341875533, -1676620432, -1331562723, -1684822463,
  -1321199781, -1692961062, -1310787095, -1701035922, -1300325060, -1709046739, -1289814068, -1716993211,
  -1279254516, -1724875040, -1268646800, -1732691928, -1257991320, -1740443581, -1247288478, -1748129707,
  -1236538675, -1755750017, -1225742318, -1763304224, -1214899813, -1770792044, -1204011567, -1778213194,
  -1193077991, -1785567396, -1182099496, -1792854372, -1171076495, -1800073849, -1160009405, -1807225553,
  -1148898640, -1814309216, -1137744621, -1821324572, -1126547765, -1828271356, -1115308496, -1835149306,
  -1104027237, -1841958164, -1092704411, -1848697674, -1081340445, -1855367581, -1069935768, -1861967634,
  -1058490808, -1868497586, -1047005996, -1874957189, -1035481766, -1881346202, -1023918550, -1887664383,
  -1012316784, -1893911494, -1000676905, -1900087301, -988999351, -1906191570, -977284562, -1912224073,
  -965532978, -1918184581, -953745043, -1924072871, -941921200, -1929888720, -930061894, -1935631910,
  -918167572, -1941302225, -906238681, -1946899451, -894275671, -1952423377, -882278992, -1957873796,
  -870249095, -1963250501, -858186435, -1968553292, -846091463, -1973781967, -833964638, -1978936331,
  -821806413, -1984016189, -809617249, -1989021350, -797397602, -1993951625, -785147934, -1998806829,
  -772868706, -2003586779, -760560380, -2008291295, -748223418, -2012920201, -735858287, -2017473321,
  -723465451, -2021950484, -711045377, -2026351522, -698598533, -2030676269, -686125387, -2034924562,
  -673626408, -2039096241, -661102068, -2043191150, -648552838, -2047209133, -635979190, -2051150040,
  -623381598, -2055013723, -610760536, -2058800036, -598116479, -2062508835, -585449903, -2066139983,
  -572761285, -2069693342, -560051104, -2073168777, -547319836, -2076566160, -534567963, -2079885360,
  -521795963, -2083126254, -509004318, -2086288720, -496193509, -2089372638, -483364019, -2092377892,
  -470516330, -2095304370, -457650927, -2098151960, -444768294, -2100920556, -431868915, -2103610054,
  -418953276, -2106220352, -406021865, -2108751352, -393075166, -2111202959, -380113669, -2113575080,
  -367137861, -2115867626, -354148230, -2118080511, -341145265, -2120213651, -328129457, -2122266967,
  -315101295, -2124240380, -302061269, -2126133817, -289009871, -2127947206, -275947592, -2129680480,
  -262874923, -2131333572, -249792358, -2132906420, -236700388, -2134398966, -223599506, -2135811153,
  -210490206, -2137142927, -197372981, -2138394240, -184248325, -2139565043, -171116733, -2140655293,
  -157978697, -2141664948, -144834714, -2142593971, -131685278, -2143442326, -118530885, -2144209982,
  -105372028, -2144896910, -92209205, -2145503083, -79042909, -2146028480, -65873638, -2146473080,
  -52701887, -2146836866, -39528151, -2147119825, -26352928, -2147321946, -13176712, -2147443222
>>

RECURSIVE RevBits(_, _)

\* the low `bits` bits of x in reverse order
RevBits(x, bits) ==
  IF bits = 0 THEN 0
  ELSE ((x % 2) * Pow2(bits - 1)) + RevBits(x \div 2, bits - 1)

\* the bit-reversal table generated for length fftLen: the ordered sequence of the
\* index pairs (from, to) of the samples to exchange, one pair for every sample
\* index that is below its bit reversal
BitRevPairs(fftLen) ==
  LET bits == CHOOSE b \in 0..TableLog2 : Pow2(b) = fftLen
  IN  SelectSeq([i \in 1..fftLen |-> <<i - 1, RevBits(i - 1, bits)>>],
                LAMBDA p : p[1] < p[2])

\* one table per supported length 4, 16, ..., 1024; a descriptor refers to the
\* table of its length
riscvBitRevTable ==
  [fftLen \in {Pow2(2 * k) : k \in 1..(TableLog2 \div 2)} |-> BitRevPairs(fftLen)]

(***************************************************************************)
(* State.                                                                  *)
(*   mem          the memory holding the callers' sample buffers, one      *)
(*                32-bit word per scalar; the words after a buffer are     *)
(*                whatever lies behind it in memory                        *)
(*   twiddleCoef  the twiddle table the descriptors point into             *)
(*   bitRevTable  the bit-reversal table the descriptors point into        *)
(*   inst         the transform descriptors built at setup time            *)
(*   pc           per caller: "ready" outside a call, else the loop of the *)
(*                call that is executing                                   *)
(*   arg          per caller: the arguments S and pSrc of the call         *)
(*   loc          per caller: the automatic variables of the engine        *)
(*   obs          per caller: what the call has done so far (engines       *)
(*                entered, butterflies per stage, largest indexes used)    *)
(*   calls        per caller: the descriptors of the calls that returned   *)
(*   callsLeft    per caller: how many more calls the caller will make     *)
(*   orig         the memory as it was before the first call               *)
(***************************************************************************)
VARIABLES mem, twiddleCoef, bitRevTable, inst, pc, arg, loc, obs, calls, callsLeft, orig

vars == <<mem, twiddleCoef, bitRevTable, inst, pc, arg, loc, obs, calls, callsLeft, orig>>

Threads == DOMAIN pc

Max(a, b) == IF a >= b THEN a ELSE b

NoLocals ==
  [pSrc |-> 0, fftLen |-> 0, pCoef |-> 0, twidCoefModifier |-> 0,
   n1 |-> 0, n2 |-> 0, ia1 |-> 0, ia2 |-> 0, ia3 |-> 0, j |-> 0, k |-> 0, i0 |-> 0, pSi0 |-> 0, pSi1 |-> 0, pSi2 |-> 0, pSi3 |-> 0,
   ptr1 |-> 0, co1 |-> 0, si1 |-> 0, co2 |-> 0, si2 |-> 0, co3 |-> 0, si3 |-> 0]

NoObs ==
  [engines |-> <<>>, stages |-> <<>>, bitrevs |-> 0, maxTw |-> -1, maxIdx |-> -1]

(***************************************************************************)
(* The arithmetic of one butterfly, as the engines write it.               *)
(***************************************************************************)
\* a first stage that rounds its inputs to the nearest instead of down
GuardShiftRounding(x) == Shr(x, 4) + (IF x % 16 >= 8 THEN 1 ELSE 0)

\* a first stage that keeps three guard bits only
GuardShiftBy3(x) == Shr(x, 3)

\* first stage: every input is read as (pSi[..] >> 4u), four guard bits
GuardShift(x) == Shr(x, 4)

\* a first stage that leaves out the << 1u of its twiddled outputs
FirstTwidOutNoShift(x) == x

\* first stage: every twiddled output is (... + ...) << 1u
FirstTwidOut(x) == Shl1(x)

\* a middle stage that shifts its untwiddled output by one bit only
MiddleSumOutBy1(x) == Shr(x, 1)

\* middle stages: the untwiddled output is (r1 + t1) >> 2u
MiddleSumOut(x) == Shr(x, 2)

\* a middle stage that stores its twiddled outputs unshifted
MiddleTwidOutNoShift(x) == x

\* middle stages: every twiddled output is (... +/- ...) >> 1u
MiddleTwidOut(x) == Shr(x, 1)

\* a forward engine that subtracts the two products of the real part
FwdTwidReSubtracted(r, s, co, si) == Sub32(MulHi(r, co), MulHi(s, si))

\* forward engine: (r * co) >> 32 + (s * si) >> 32
FwdTwidRe(r, s, co, si) == Add32(MulHi(r, co), MulHi(s, si))

\* a forward engine that adds the two products of the imaginary part
FwdTwidImAdded(r, s, co, si) == Add32(MulHi(s, co), MulHi(r, si))

\* forward engine: (s * co) >> 32 - (r * si) >> 32
FwdTwidIm(r, s, co, si) == Sub32(MulHi(s, co), MulHi(r, si))

\* an inverse engine whose real part is twiddled as in the forward engine
InvTwidReAsForward(r, s, co, si) == Add32(MulHi(r, co), MulHi(s, si))

\* inverse engine: (r * co) >> 32 - (s * si) >> 32
InvTwidRe(r, s, co, si) == Sub32(MulHi(r, co), MulHi(s, si))

\* an inverse engine whose imaginary part is twiddled as in the forward engine
InvTwidImAsForward(r, s, co, si) == Sub32(MulHi(s, co), MulHi(r, si))

\* inverse engine: (s * co) >> 32 + (r * si) >> 32
InvTwidIm(r, s, co, si) == Add32(MulHi(s, co), MulHi(r, si))

(***************************************************************************)
(* Forward engine, one iteration of the first-stage do-while loop: the     *)
(* memory after the butterfly at cursors pSi0..pSi3 with twiddle index ia1.*)
(***************************************************************************)
FwdFirstButterfly(m, coef, l) ==
  LET p0 == l.pSi0
      p1 == l.pSi1
      p2 == l.pSi2
      p3 == l.pSi3
      r1a == Add32(GuardShift(m[p0]), GuardShift(m[p2]))
      r2a == Sub32(GuardShift(m[p0]), GuardShift(m[p2]))
      t1a == Add32(GuardShift(m[p1]), GuardShift(m[p3]))
      s1a == Add32(GuardShift(m[p0 + 1]), GuardShift(m[p2 + 1]))
      s2a == Sub32(GuardShift(m[p0 + 1]), GuardShift(m[p2 + 1]))
      mA  == [m EXCEPT ![p0] = Add32(r1a, t1a)]
      r1b == Sub32(r1a, t1a)
      t2a == Add32(GuardShift(mA[p1 + 1]), GuardShift(mA[p3 + 1]))
      mB  == [mA EXCEPT ![p0 + 1] = Add32(s1a, t2a)]
      s1b == Sub32(s1a, t2a)
      t1b == Sub32(GuardShift(mB[p1 + 1]), GuardShift(mB[p3 + 1]))
      t2b == Sub32(GuardShift(mB[p1]), GuardShift(mB[p3]))
      ia2 == 2 * l.ia1
      co2 == coef[l.pCoef + (ia2 * 2)]
      si2 == coef[l.pCoef + (ia2 * 2) + 1]
      mC  == [mB EXCEPT ![p1] = FirstTwidOut(FwdTwidRe(r1b, s1b, co2, si2))]
      mD  == [mC EXCEPT ![p1 + 1] = FirstTwidOut(FwdTwidIm(r1b, s1b, co2, si2))]
      r1c == Add32(r2a, t1b)
      r2b == Sub32(r2a, t1b)
      s1c == Sub32(s2a, t2b)
      s2b == Add32(s2a, t2b)
      co1 == coef[l.pCoef + (l.ia1 * 2)]
      si1 == coef[l.pCoef + (l.ia1 * 2) + 1]
      mE  == [mD EXCEPT ![p2] = FirstTwidOut(FwdTwidRe(r1c, s1c, co1, si1))]
      mF  == [mE EXCEPT ![p2 + 1] = FirstTwidOut(FwdTwidIm(r1c, s1c, co1, si1))]
      ia3 == 3 * l.ia1
      co3 == coef[l.pCoef + (ia3 * 2)]
      si3 == coef[l.pCoef + (ia3 * 2) + 1]
      mG  == [mF EXCEPT ![p3] = FirstTwidOut(FwdTwidRe(r2b, s2b, co3, si3))]
  IN  [mG EXCEPT ![p3 + 1] = FirstTwidOut(FwdTwidIm(r2b, s2b, co3, si3))]

(***************************************************************************)
(* Forward engine, one iteration of the innermost middle-stage loop: the   *)
(* butterfly at cursors pSi0..pSi3 with the coefficients loaded for j.     *)
(***************************************************************************)
FwdMiddleButterfly(m, l) ==
  LET p0 == l.pSi0
      p1 == l.pSi1
      p2 == l.pSi2
      p3 == l.pSi3
      r1a == Add32(m[p0], m[p2])
      r2a == Sub32(m[p0], m[p2])
      s1a == Add32(m[p0 + 1], m[p2 + 1])
      s2a == Sub32(m[p0 + 1], m[p2 + 1])
      t1a == Add32(m[p1], m[p3])
      mA  == [m EXCEPT ![p0] = MiddleSumOut(Add32(r1a, t1a))]
      r1b == Sub32(r1a, t1a)
      t2a == Add32(mA[p1 + 1], mA[p3 + 1])
      mB  == [mA EXCEPT ![p0 + 1] = MiddleSumOut(Add32(s1a, t2a))]
      s1b == Sub32(s1a, t2a)
      t1b == Sub32(mB[p1 + 1], mB[p3 + 1])
      t2b == Sub32(mB[p1], mB[p3])
      mC  == [mB EXCEPT ![p1] = MiddleTwidOut(FwdTwidRe(r1b, s1b, l.co2, l.si2))]
      mD  == [mC EXCEPT ![p1 + 1] = MiddleTwidOut(FwdTwidIm(r1b, s1b, l.co2, l.si2))]
      r1c == Add32(r2a, t1b)
      r2b == Sub32(r2a, t1b)
      s1c == Sub32(s2a, t2b)
      s2b == Add32(s2a, t2b)
      mE  == [mD EXCEPT ![p2] = MiddleTwidOut(FwdTwidRe(r1c, s1c, l.co1, l.si1))]
      mF  == [mE EXCEPT ![p2 + 1] = MiddleTwidOut(FwdTwidIm(r1c, s1c, l.co1, l.si1))]
      mG  == [mF EXCEPT ![p3] = MiddleTwidOut(FwdTwidRe(r2b, s2b, l.co3, l.si3))]
  IN  [mG EXCEPT ![p3 + 1] = MiddleTwidOut(FwdTwidIm(r2b, s2b, l.co3, l.si3))]

\* a last-stage group that reads sample a back after having written a' to it
FwdLastButterflyReadsBack(m, l) ==
  LET p  == l.ptr1
      xb == m[p + 2]
      yb == m[p + 3]
      xc == m[p + 4]
      yc == m[p + 5]
      xd == m[p + 6]
      yd == m[p + 7]
      xa == Add32(Add32(Add32(m[p], xb), xc), xd)
      ya == Add32(Add32(Add32(m[p + 1], yb), yc), yd)
  IN  [m EXCEPT ![p] = xa, ![p + 1] = ya,
                ![p + 2] = Sub32(Add32(Sub32(xa, xb), xc), xd),
                ![p + 3] = Sub32(Add32(Sub32(ya, yb), yc), yd),
                ![p + 4] = Sub32(Sub32(Add32(xa, yb), xc), yd),
                ![p + 5] = Add32(Sub32(Sub32(ya, xb), yc), xd),
                ![p + 6] = Add32(Sub32(Sub32(xa, yb), xc), yd),
                ![p + 7] = Sub32(Sub32(Add32(ya, xb), yc), xd)]

(***************************************************************************)
(* Forward engine, one iteration of the last-stage do-while loop: the four *)
(* complex samples at ptr1 are read, then written back as a', c', b', d'.  *)
(***************************************************************************)
FwdLastButterfly(m, l) ==
  LET p  == l.ptr1
      xa == m[p]
      ya == m[p + 1]
      xb == m[p + 2]
      yb == m[p + 3]
      xc == m[p + 4]
      yc == m[p + 5]
      xd == m[p + 6]
      yd == m[p + 7]
      xa_out == Add32(Add32(Add32(xa, xb), xc), xd)
      ya_out == Add32(Add32(Add32(ya, yb), yc), yd)
      xc_out == Sub32(Add32(Sub32(xa, xb), xc), xd)
      yc_out == Sub32(Add32(Sub32(ya, yb), yc), yd)
      xb_out == Sub32(Sub32(Add32(xa, yb), xc), yd)
      yb_out == Add32(Sub32(Sub32(ya, xb), yc), xd)
      xd_out == Add32(Sub32(Sub32(xa, yb), xc), yd)
      yd_out == Sub32(Sub32(Add32(ya, xb), yc), xd)
  IN  [m EXCEPT ![p] = xa_out, ![p + 1] = ya_out,
                ![p + 2] = xc_out, ![p + 3] = yc_out,
                ![p + 4] = xb_out, ![p + 5] = yb_out,
                ![p + 6] = xd_out, ![p + 7] = yd_out]

(***************************************************************************)
(* Inverse engine, one iteration of the first-stage do-while loop: the     *)
(* memory after the butterfly at cursors pSi0..pSi3 with twiddle index ia1.*)
(***************************************************************************)
InvFirstButterfly(m, coef, l) ==
  LET p0 == l.pSi0
      p1 == l.pSi1
      p2 == l.pSi2
      p3 == l.pSi3
      r1a == Add32(GuardShift(m[p0]), GuardShift(m[p2]))
      r2a == Sub32(GuardShift(m[p0]), GuardShift(m[p2]))
      t1a == Add32(GuardShift(m[p1]), GuardShift(m[p3]))
      s1a == Add32(GuardShift(m[p0 + 1]), GuardShift(m[p2 + 1]))
      s2a == Sub32(GuardShift(m[p0 + 1]), GuardShift(m[p2 + 1]))
      mA  == [m EXCEPT ![p0] = Add32(r1a, t1a)]
      r1b == Sub32(r1a, t1a)
      t2a == Add32(GuardShift(mA[p1 + 1]), GuardShift(mA[p3 + 1]))
      mB  == [mA EXCEPT ![p0 + 1] = Add32(s1a, t2a)]
      s1b == Sub32(s1a, t2a)
      t1b == Sub32(GuardShift(mB[p1 + 1]), GuardShift(mB[p3 + 1]))
      t2b == Sub32(GuardShift(mB[p1]), GuardShift(mB[p3]))
      ia2 == 2 * l.ia1
      co2 == coef[l.pCoef + (ia2 * 2)]
      si2 == coef[l.pCoef + (ia2 * 2) + 1]
      mC  == [mB EXCEPT ![p1] = FirstTwidOut(InvTwidRe(r1b, s1b, co2, si2))]
      mD  == [mC EXCEPT ![p1 + 1] = FirstTwidOut(InvTwidIm(r1b, s1b, co2, si2))]
      r1c == Sub32(r2a, t1b)
      r2b == Add32(r2a, t1b)
      s1c == Add32(s2a, t2b)
      s2b == Sub32(s2a, t2b)
      co1 == coef[l.pCoef + (l.ia1 * 2)]
      si1 == coef[l.pCoef + (l.ia1 * 2) + 1]
      mE  == [mD EXCEPT ![p2] = FirstTwidOut(InvTwidRe(r1c, s1c, co1, si1))]
      mF  == [mE EXCEPT ![p2 + 1] = FirstTwidOut(InvTwidIm(r1c, s1c, co1, si1))]
      ia3 == 3 * l.ia1
      co3 == coef[l.pCoef + (ia3 * 2)]
      si3 == coef[l.pCoef + (ia3 * 2) + 1]
      mG  == [mF EXCEPT ![p3] = FirstTwidOut(InvTwidRe(r2b, s2b, co3, si3))]
  IN  [mG EXCEPT ![p3 + 1] = FirstTwidOut(InvTwidIm(r2b, s2b, co3, si3))]

(***************************************************************************)
(* Inverse engine, one iteration of the innermost middle-stage loop: the   *)
(* butterfly at cursors pSi0..pSi3 with the coefficients loaded for j.     *)
(***************************************************************************)
InvMiddleButterfly(m, l) ==
  LET p0 == l.pSi0
      p1 == l.pSi1
      p2 == l.pSi2
      p3 == l.pSi3
      r1a == Add32(m[p0], m[p2])
      r2a == Sub32(m[p0], m[p2])
      s1a == Add32(m[p0 + 1], m[p2 + 1])
      s2a == Sub32(m[p0 + 1], m[p2 + 1])
      t1a == Add32(m[p1], m[p3])
      mA  == [m EXCEPT ![p0] = MiddleSumOut(Add32(r1a, t1a))]
      r1b == Sub32(r1a, t1a)
      t2a == Add32(mA[p1 + 1], mA[p3 + 1])
      mB  == [mA EXCEPT ![p0 + 1] = MiddleSumOut(Add32(s1a, t2a))]
      s1b == Sub32(s1a, t2a)
      t1b == Sub32(mB[p1 + 1], mB[p3 + 1])
      t2b == Sub32(mB[p1], mB[p3])
      mC  == [mB EXCEPT ![p1] = MiddleTwidOut(InvTwidRe(r1b, s1b, l.co2, l.si2))]
      mD  == [mC EXCEPT ![p1 + 1] = MiddleTwidOut(InvTwidIm(r1b, s1b, l.co2, l.si2))]
      r1c == Sub32(r2a, t1b)
      r2b == Add32(r2a, t1b)
      s1c == Add32(s2a, t2b)
      s2b == Sub32(s2a, t2b)
      mE  == [mD EXCEPT ![p2] = MiddleTwidOut(InvTwidRe(r1c, s1c, l.co1, l.si1))]
      mF  == [mE EXCEPT ![p2 + 1] = MiddleTwidOut(InvTwidIm(r1c, s1c, l.co1, l.si1))]
      mG  == [mF EXCEPT ![p3] = MiddleTwidOut(InvTwidRe(r2b, s2b, l.co3, l.si3))]
  IN  [mG EXCEPT ![p3 + 1] = MiddleTwidOut(InvTwidIm(r2b, s2b, l.co3, l.si3))]

\* an inverse last stage with the third and fourth output of the forward engine
InvLastButterflyAsForward(m, l) ==
  LET p  == l.ptr1
      xa == m[p]
      ya == m[p + 1]
      xb == m[p + 2]
      yb == m[p + 3]
      xc == m[p + 4]
      yc == m[p + 5]
      xd == m[p + 6]
      yd == m[p + 7]
  IN  [m EXCEPT ![p] = Add32(Add32(Add32(xa, xb), xc), xd),
                ![p + 1] = Add32(Add32(Add32(ya, yb), yc), yd),
                ![p + 2] = Sub32(Add32(Sub32(xa, xb), xc), xd),
                ![p + 3] = Sub32(Add32(Sub32(ya, yb), yc), yd),
                ![p + 4] = Sub32(Sub32(Add32(xa, yb), xc), yd),
                ![p + 5] = Add32(Sub32(Sub32(ya, xb), yc), xd),
                ![p + 6] = Add32(Sub32(Sub32(xa, yb), xc), yd),
                ![p + 7] = Sub32(Sub32(Add32(ya, xb), yc), xd)]

(***************************************************************************)
(* Inverse engine, one iteration of the last-stage do-while loop.          *)
(***************************************************************************)
InvLastButterfly(m, l) ==
  LET p  == l.ptr1
      xa == m[p]
      ya == m[p + 1]
      xb == m[p + 2]
      yb == m[p + 3]
      xc == m[p + 4]
      yc == m[p + 5]
      xd == m[p + 6]
      yd == m[p + 7]
      xa_out == Add32(Add32(Add32(xa, xb), xc), xd)
      ya_out == Add32(Add32(Add32(ya, yb), yc), yd)
      xc_out == Sub32(Add32(Sub32(xa, xb), xc), xd)
      yc_out == Sub32(Add32(Sub32(ya, yb), yc), yd)
      xb_out == Add32(Sub32(Sub32(xa, yb), xc), yd)
      yb_out == Sub32(Sub32(Add32(ya, xb), yc), xd)
      xd_out == Sub32(Sub32(Add32(xa, yb), xc), yd)
      yd_out == Add32(Sub32(Sub32(ya, xb), yc), xd)
  IN  [m EXCEPT ![p] = xa_out, ![p + 1] = ya_out,
                ![p + 2] = xc_out, ![p + 3] = yc_out,
                ![p + 4] = xb_out, ![p + 5] = yb_out,
                ![p + 6] = xd_out, ![p + 7] = yd_out]

(***************************************************************************)
(* Loop control of the engines.  It is the same text in the forward and in *)
(* the inverse engine.                                                     *)
(***************************************************************************)
\* an entry that sets the fourth cursor one sample too far
EngineEntryFourthOneFurther(pSrc, fftLen, pCoef, twidCoefModifier) ==
  [NoLocals EXCEPT !.pSrc = pSrc, !.fftLen = fftLen, !.pCoef = pCoef,
                   !.twidCoefModifier = twidCoefModifier,
                   !.n1 = fftLen, !.n2 = fftLen \div 4, !.ia1 = 0,
                   !.j = fftLen \div 4,
                   !.pSi0 = pSrc,
                   !.pSi1 = pSrc + (2 * (fftLen \div 4)),
                   !.pSi2 = pSrc + (4 * (fftLen \div 4)),
                   !.pSi3 = pSrc + (6 * (fftLen \div 4)) + 2]

\* an entry that sets the third cursor from pSi0, not from pSi1
EngineEntryThirdFromFirst(pSrc, fftLen, pCoef, twidCoefModifier) ==
  [NoLocals EXCEPT !.pSrc = pSrc, !.fftLen = fftLen, !.pCoef = pCoef,
                   !.twidCoefModifier = twidCoefModifier,
                   !.n1 = fftLen, !.n2 = fftLen \div 4, !.ia1 = 0,
                   !.j = fftLen \div 4,
                   !.pSi0 = pSrc,
                   !.pSi1 = pSrc + (2 * (fftLen \div 4)),
                   !.pSi2 = pSrc + (2 * (fftLen \div 4)),
                   !.pSi3 = pSrc + (4 * (fftLen \div 4))]

\* "Initializations for the first stage": the parameters and the cursors
EngineEntry(pSrc, fftLen, pCoef, twidCoefModifier) ==
  [NoLocals EXCEPT !.pSrc = pSrc, !.fftLen = fftLen, !.pCoef = pCoef,
                   !.twidCoefModifier = twidCoefModifier,
                   !.n1 = fftLen, !.n2 = fftLen \div 4, !.ia1 = 0,
                   !.j = fftLen \div 4,
                   !.pSi0 = pSrc,
                   !.pSi1 = pSrc + (2 * (fftLen \div 4)),
                   !.pSi2 = pSrc + (4 * (fftLen \div 4)),
                   !.pSi3 = pSrc + (6 * (fftLen \div 4))]

\* the index calculations and coefficient loads of a first-stage butterfly:
\* ia2 = 2 * ia1, ia3 = 3 * ia1 and the three pairs read from pCoef
FirstCoefs(l, coef) ==
  LET ia2 == 2 * l.ia1
      ia3 == 3 * l.ia1
  IN  [l EXCEPT !.ia2 = ia2, !.ia3 = ia3,
                !.co1 = coef[l.pCoef + (l.ia1 * 2)],
                !.si1 = coef[l.pCoef + (l.ia1 * 2) + 1],
                !.co2 = coef[l.pCoef + (ia2 * 2)],
                !.si2 = coef[l.pCoef + (ia2 * 2) + 1],
                !.co3 = coef[l.pCoef + (ia3 * 2)],
                !.si3 = coef[l.pCoef + (ia3 * 2) + 1]]

\* a first stage that never moves ia1
FirstAdvanceKeepsIndex(l, coef) ==
  [FirstCoefs(l, coef) EXCEPT
     !.pSi0 = @ + 2, !.pSi1 = @ + 2, !.pSi2 = @ + 2, !.pSi3 = @ + 2,
     !.j = @ - 1]

\* a first stage that steps ia1 by twice the stride
FirstAdvanceDoubleStep(l, coef) ==
  [FirstCoefs(l, coef) EXCEPT
     !.pSi0 = @ + 2, !.pSi1 = @ + 2, !.pSi2 = @ + 2, !.pSi3 = @ + 2,
     !.ia1 = @ + (2 * l.twidCoefModifier), !.j = @ - 1]

\* a first-stage iteration's effect on the engine's variables: the butterfly's
\* index calculations and coefficient loads, two ++ per cursor,
\* ia1 + twidCoefModifier, --j
FirstAdvance(l, coef) ==
  [FirstCoefs(l, coef) EXCEPT
     !.pSi0 = @ + 2, !.pSi1 = @ + 2, !.pSi2 = @ + 2, !.pSi3 = @ + 2,
     !.ia1 = @ + l.twidCoefModifier, !.j = @ - 1]

\* an engine whose stride doubles after each stage
DoubleStride(l) == [l EXCEPT !.twidCoefModifier = @ * 2]

\* twidCoefModifier <<= 2u, on the engine's own copy of the parameter
QuadrupleStride(l) == [l EXCEPT !.twidCoefModifier = @ * 4]

\* head of the middle-stage loop body: n1 = n2; n2 >>= 2u; ia1 = 0u; j = 0u
MiddleStageInit(l) == [l EXCEPT !.n1 = l.n2, !.n2 = l.n2 \div 4, !.ia1 = 0, !.j = 0]

\* head of the j loop body: the three coefficient pairs, the cursors, i0 = j
MiddleLoadJ(l, coef) ==
  LET ia2 == l.ia1 + l.ia1
      ia3 == ia2 + l.ia1
  IN  [l EXCEPT !.ia2 = ia2, !.ia3 = ia3,
                !.co1 = coef[l.pCoef + (l.ia1 * 2)],
                !.si1 = coef[l.pCoef + (l.ia1 * 2) + 1],
                !.co2 = coef[l.pCoef + (ia2 * 2)],
                !.si2 = coef[l.pCoef + (ia2 * 2) + 1],
                !.co3 = coef[l.pCoef + (ia3 * 2)],
                !.si3 = coef[l.pCoef + (ia3 * 2) + 1],
                !.ia1 = @ + l.twidCoefModifier,
                !.pSi0 = l.pSrc + (2 * l.j),
                !.pSi1 = l.pSrc + (2 * l.j) + (2 * l.n2),
                !.pSi2 = l.pSrc + (2 * l.j) + (4 * l.n2),
                !.pSi3 = l.pSrc + (2 * l.j) + (6 * l.n2),
                !.i0 = l.j]

\* end of an innermost iteration: every cursor += 2 * n1, i0 += n1
MiddleAdvance(l) ==
  [l EXCEPT !.pSi0 = @ + (2 * l.n1), !.pSi1 = @ + (2 * l.n1),
            !.pSi2 = @ + (2 * l.n1), !.pSi3 = @ + (2 * l.n1),
            !.i0 = @ + l.n1]

\* a last stage that runs one group too many
LastInitOneMore(l) == [l EXCEPT !.j = (l.fftLen \div 4) + 1, !.ptr1 = l.pSrc]

\* "Initializations for the last stage": j = fftLen >> 2; ptr1 = &pSrc[0]
LastInit(l) == [l EXCEPT !.j = l.fftLen \div 4, !.ptr1 = l.pSrc]

\* a last stage whose groups overlap by one sample
LastAdvanceOverlapping(l) == [l EXCEPT !.ptr1 = @ + 6, !.j = @ - 1]

\* end of a last-stage iteration: ptr1 has moved over 8 scalars, --j
LastAdvance(l) == [l EXCEPT !.ptr1 = @ + 8, !.j = @ - 1]

\* a middle-stage loop that stops one stage early: for (...; k > 16u; ...)
StageAfterStopEarly(l, coef) ==
  IF l.k > 16
    THEN [phase |-> "middle", entered |-> TRUE,
          l |-> MiddleLoadJ(MiddleStageInit(l), coef)]
    ELSE [phase |-> "last", entered |-> TRUE, l |-> LastInit(l)]

\* for (k = fftLen / 4u; k > 4u; ...): the next middle stage, or the last stage
StageAfter(l, coef) ==
  IF l.k > 4
    THEN [phase |-> "middle", entered |-> TRUE,
          l |-> MiddleLoadJ(MiddleStageInit(l), coef)]
    ELSE [phase |-> "last", entered |-> TRUE, l |-> LastInit(l)]

\* } while(--j); then twidCoefModifier <<= 2u and k = fftLen / 4u
AfterFirstIter(l, coef) ==
  LET a == FirstAdvance(l, coef)
  IN  IF a.j # 0
        THEN [phase |-> "first", entered |-> FALSE, l |-> a]
        ELSE StageAfter([QuadrupleStride(a) EXCEPT !.k = a.fftLen \div 4], coef)

\* i0 += n1 while i0 < fftLen; j++ while j <= n2 - 1; twidCoefModifier <<= 2u; k >>= 2u
AfterMiddleIter(l, coef) ==
  LET a == MiddleAdvance(l)
      b == [a EXCEPT !.j = @ + 1]
  IN  IF a.i0 < a.fftLen
        THEN [phase |-> "middle", entered |-> FALSE, l |-> a]
        ELSE IF b.j <= b.n2 - 1
          THEN [phase |-> "middle", entered |-> FALSE, l |-> MiddleLoadJ(b, coef)]
          ELSE StageAfter([QuadrupleStride(b) EXCEPT !.k = b.k \div 4], coef)

\* } while(--j); then the engine returns
AfterLastIter(l) ==
  LET a == LastAdvance(l)
  IN  IF a.j # 0
        THEN [phase |-> "last", entered |-> FALSE, l |-> a]
        ELSE [phase |-> "return", entered |-> FALSE, l |-> a]

(***************************************************************************)
(* Bit-reversal pass riscv_bitreversal_q31(pSrc, fftLen, bitRevFactor,     *)
(* pBitRevTab).  The table is an ordered sequence of index pairs (from,    *)
(* to); the pass walks it in steps of bitRevFactor and exchanges complex   *)
(* sample from with complex sample to for every pair it steps on.  It      *)
(* takes every index from the table and computes none.                     *)
(***************************************************************************)
SwapCplx(m, a, b) ==
  [m EXCEPT ![2 * a] = m[2 * b], ![(2 * a) + 1] = m[(2 * b) + 1],
            ![2 * b] = m[2 * a], ![(2 * b) + 1] = m[(2 * a) + 1]]

RECURSIVE BitRevLoop(_, _, _, _, _, _)

\* the swaps of steps lo .. hi of the walk, in this order; step j of the walk is
\* on pair 1 + j * bitRevFactor of the table (the steps are done half by half,
\* the earlier half first)
BitRevLoop(m, s0, pairs, bitRevFactor, lo, hi) ==
  IF lo > hi THEN m
  ELSE IF lo = hi
    THEN LET p == pairs[1 + (lo * bitRevFactor)]
         IN  SwapCplx(m, s0 + p[1], s0 + p[2])
    ELSE LET mid == (lo + hi) \div 2
         IN  CHOOSE out \in
               {BitRevLoop(m1, s0, pairs, bitRevFactor, mid + 1, hi) :
                  m1 \in {BitRevLoop(m, s0, pairs, bitRevFactor, lo, mid)}} : TRUE

\* pSrc is a scalar offset of an even word: sample s of the buffer is sample
\* pSrc/2 + s; pBitRevTab refers to one of the tables of tab, which the pass
\* walks from its first pair to its end
riscv_bitreversal_q31(m, pSrc, fftLen, bitRevFactor, tab, pBitRevTab) ==
  BitRevLoop(m, pSrc \div 2, tab[pBitRevTab], bitRevFactor, 0,
             (Len(tab[pBitRevTab]) - 1) \div bitRevFactor)

(***************************************************************************)
(* The dispatcher riscv_cfft_radix4_q31(S, pSrc).                          *)
(***************************************************************************)
\* a dispatcher with the test of the direction flag inverted
SelectEngineSwapped(S) == IF S.ifftFlag = 1 THEN "fwd" ELSE "inv"

\* if(S->ifftFlag == 1u) the inverse engine, else the forward engine
SelectEngine(S) == IF S.ifftFlag = 1 THEN "inv" ELSE "fwd"

\* a dispatcher that passes the stride of the twiddle table as the factor
BitRevArgsTwiddleStride(S) ==
  [fftLen |-> S.fftLen, bitRevFactor |-> S.twidCoefModifier,
   pBitRevTab |-> S.pBitRevTable]

\* riscv_bitreversal_q31(pSrc, S->fftLen, S->bitRevFactor, S->pBitRevTable)
BitRevArgs(S) ==
  [fftLen |-> S.fftLen, bitRevFactor |-> S.bitRevFactor,
   pBitRevTab |-> S.pBitRevTable]

\* a dispatcher that runs the pass for any nonzero flag
DoBitReversalNonzero(S) == S.bitReverseFlag # 0

\* if(S->bitReverseFlag == 1u)
DoBitReversal(S) == S.bitReverseFlag = 1

PcName ==
  [fwd |-> [first |-> "fwd_first", middle |-> "fwd_middle", last |-> "fwd_last",
            return |-> "bitrev_check"],
   inv |-> [first |-> "inv_first", middle |-> "inv_middle", last |-> "inv_last",
            return |-> "bitrev_check"]]

(***************************************************************************)
(* The engines and the dispatcher as functions of the memory: the loop     *)
(* iterations above, run from entry to return.                             *)
(***************************************************************************)
RECURSIVE RunEngine(_, _, _, _, _)

RunEngine(e, m, coef, l, phase) ==
  IF phase = "return" THEN m
  ELSE CHOOSE out \in
         {RunEngine(e, m1, coef, r.l, r.phase) :
            m1 \in {CASE phase = "first" ->
                          IF e = "inv" THEN InvFirstButterfly(m, coef, l)
                                       ELSE FwdFirstButterfly(m, coef, l)
                     [] phase = "middle" ->
                          IF e = "inv" THEN InvMiddleButterfly(m, l)
                                       ELSE FwdMiddleButterfly(m, l)
                     [] phase = "last" ->
                          IF e = "inv" THEN InvLastButterfly(m, l)
                                       ELSE FwdLastButterfly(m, l)},
            r \in {CASE phase = "first" -> AfterFirstIter(l, coef)
                    [] phase = "middle" -> AfterMiddleIter(l, coef)
                    [] phase = "last" -> AfterLastIter(l)}} : TRUE

riscv_radix4_butterfly_q31(m, pSrc, fftLen, coef, pCoef, twidCoefModifier) ==
  RunEngine("fwd", m, coef, EngineEntry(pSrc, fftLen, pCoef, twidCoefModifier), "first")

riscv_radix4_butterfly_inverse_q31(m, pSrc, fftLen, coef, pCoef, twidCoefModifier) ==
  RunEngine("inv", m, coef, EngineEntry(pSrc, fftLen, pCoef, twidCoefModifier), "first")

riscv_cfft_radix4_q31(S, m, pSrc, coef, tab) ==
  LET m1 == IF SelectEngine(S) = "inv"
              THEN riscv_radix4_butterfly_inverse_q31(m, pSrc, S.fftLen, coef,
                                                      S.pTwiddle, S.twidCoefModifier)
              ELSE riscv_radix4_butterfly_q31(m, pSrc, S.fftLen, coef,
                                              S.pTwiddle, S.twidCoefModifier)
      a  == BitRevArgs(S)
  IN  IF DoBitReversal(S)
        THEN riscv_bitreversal_q31(m1, pSrc, a.fftLen, a.bitRevFactor, tab,
                                   a.pBitRevTab)
        ELSE m1

\* the record of a call after one loop iteration of engine e from locals l: r is
\* the loop control's verdict, hi the largest scalar offset (from pSrc) touched
ObsStep(o, e, l, r, hi) ==
  LET n  == Len(o.stages)
      st == [o.stages EXCEPT ![n].count = @ + 1]
      \* the largest coefficient pair read: by a first-stage butterfly at 3 * ia1,
      \* and at ia3 by the loads at the head of the j loop that r.l has gone through
      tw == IF o.stages[n].name = "first" THEN Max(3 * l.ia1, r.l.ia3) ELSE r.l.ia3
  IN  [o EXCEPT !.stages = IF r.entered
                             THEN Append(st, [eng |-> e, name |-> r.phase, count |-> 0])
                             ELSE st,
                !.maxTw = Max(o.maxTw, tw),
                !.maxIdx = Max(o.maxIdx, hi)]

Call(t, d) ==
  /\ pc[t] = "ready"
  /\ callsLeft[t] > 0
  /\ LET S == inst[d]
         e == SelectEngine(S)
     IN  /\ pc' = [pc EXCEPT ![t] = PcName[e]["first"]]
         /\ loc' = [loc EXCEPT ![t] =
                      EngineEntry(arg[t].pSrc, S.fftLen, S.pTwiddle, S.twidCoefModifier)]
         /\ obs' = [obs EXCEPT ![t] =
                      [NoObs EXCEPT !.engines = <<e>>,
                                    !.stages = <<[eng |-> e, name |-> "first",
                                                  count |-> 0]>>]]
  /\ arg' = [arg EXCEPT ![t].S = d]
  /\ callsLeft' = [callsLeft EXCEPT ![t] = @ - 1]
  /\ UNCHANGED <<mem, twiddleCoef, bitRevTable, inst, calls, orig>>

\* an engine whose cursor pSi0 is static: one copy for all the calls in progress
StoreLocalsStaticCursor(locs, t, l) ==
  [u \in DOMAIN locs |-> IF u = t THEN l ELSE [locs[u] EXCEPT !.pSi0 = l.pSi0]]

\* the engine's variables are automatic: each call in progress has its own
StoreLocals(locs, t, l) == [locs EXCEPT ![t] = l]

\* an engine that works on the descriptor's stride itself instead of on a copy
InstAfterStepWriteBack(descs, d, l) ==
  [descs EXCEPT ![d].twidCoefModifier = l.twidCoefModifier]

\* the engine gets fftLen, pCoef and twidCoefModifier by value and never sees S:
\* whatever it does to its copies, the descriptors stay as they are
InstAfterStep(descs, d, l) == descs

\* one loop iteration of an engine: the memory after it and the loop control's verdict
Step(t, e, m, r, hi) ==
  /\ mem' = m
  /\ loc' = StoreLocals(loc, t, r.l)
  /\ pc' = [pc EXCEPT ![t] = PcName[e][r.phase]]
  /\ obs' = [obs EXCEPT ![t] = ObsStep(obs[t], e, loc[t], r, hi - loc[t].pSrc)]
  /\ inst' = InstAfterStep(inst, arg[t].S, r.l)
  /\ UNCHANGED <<twiddleCoef, bitRevTable, arg, calls, callsLeft, orig>>

FwdFirst(t) ==
  /\ pc[t] = "fwd_first"
  /\ Step(t, "fwd", FwdFirstButterfly(mem, twiddleCoef, loc[t]),
          AfterFirstIter(loc[t], twiddleCoef), loc[t].pSi3 + 1)

FwdMiddle(t) ==
  /\ pc[t] = "fwd_middle"
  /\ Step(t, "fwd", FwdMiddleButterfly(mem, loc[t]),
          AfterMiddleIter(loc[t], twiddleCoef), loc[t].pSi3 + 1)

FwdLast(t) ==
  /\ pc[t] = "fwd_last"
  /\ Step(t, "fwd", FwdLastButterfly(mem, loc[t]), AfterLastIter(loc[t]),
          loc[t].ptr1 + 7)

InvFirst(t) ==
  /\ pc[t] = "inv_first"
  /\ Step(t, "inv", InvFirstButterfly(mem, twiddleCoef, loc[t]),
          AfterFirstIter(loc[t], twiddleCoef), loc[t].pSi3 + 1)

InvMiddle(t) ==
  /\ pc[t] = "inv_middle"
  /\ Step(t, "inv", InvMiddleButterfly(mem, loc[t]),
          AfterMiddleIter(loc[t], twiddleCoef), loc[t].pSi3 + 1)

InvLast(t) ==
  /\ pc[t] = "inv_last"
  /\ Step(t, "inv", InvLastButterfly(mem, loc[t]), AfterLastIter(loc[t]),
          loc[t].ptr1 + 7)

\* the engine has returned and bitReverseFlag is 1: the pass, then the call returns
BitReversal(t) ==
  /\ pc[t] = "bitrev_check"
  /\ DoBitReversal(inst[arg[t].S])
  /\ LET a == BitRevArgs(inst[arg[t].S])
     IN  mem' = riscv_bitreversal_q31(mem, arg[t].pSrc, a.fftLen, a.bitRevFactor,
                                      bitRevTable, a.pBitRevTab)
  /\ obs' = [obs EXCEPT ![t].bitrevs = @ + 1,
                        ![t].stages = Append(@, [eng |-> "bitrev", name |-> "bitrev",
                                                 count |-> 1])]
  /\ pc' = [pc EXCEPT ![t] = "ready"]
  /\ calls' = [calls EXCEPT ![t] = Append(@, arg[t].S)]
  /\ UNCHANGED <<twiddleCoef, bitRevTable, inst, arg, loc, callsLeft, orig>>

\* the engine has returned and bitReverseFlag is not 1: the call returns
SkipBitReversal(t) ==
  /\ pc[t] = "bitrev_check"
  /\ ~DoBitReversal(inst[arg[t].S])
  /\ pc' = [pc EXCEPT ![t] = "ready"]
  /\ calls' = [calls EXCEPT ![t] = Append(@, arg[t].S)]
  /\ UNCHANGED <<mem, twiddleCoef, bitRevTable, inst, arg, loc, obs, callsLeft, orig>>

(***************************************************************************)
(* Setup.  A descriptor for length fftLen reads the 1024-point twiddle     *)
(* table through the stride 1024 / fftLen, and refers to the bit-reversal  *)
(* table generated for fftLen, every pair of which is to be used (factor   *)
(* 1); ifftFlag and bitReverseFlag are stored as the caller gives them.    *)
(***************************************************************************)
Descriptor(fftLen, ifftFlag, bitReverseFlag, stride) ==
  [fftLen |-> fftLen, ifftFlag |-> ifftFlag, bitReverseFlag |-> bitReverseFlag,
   pTwiddle |-> 0, twidCoefModifier |-> stride,
   pBitRevTable |-> fftLen, bitRevFactor |-> 1]

TwiddleInit == [i \in 0..(Len(twiddleCoef_q31) - 1) |-> twiddleCoef_q31[i + 1]]

(***************************************************************************)
(* Sample buffers the callers pass in.  An input is a record: an impulse   *)
(* (re, im) at sample pos, the same (re, im) in every sample, or a dense   *)
(* pattern of amplitude re, im.                                            *)
(***************************************************************************)
MaxLog4 == 3

MaxCalls == 2

MaxFlag == 2

MaxPos == 2

Lengths == {Pow2(2 * k) : k \in 2..MaxLog4}

Log4(n) == CHOOSE k \in 0..15 : Pow2(2 * k) = n

IsPow4(n) == \E k \in 0..15 : Pow2(2 * k) = n

Amplitudes ==
  {<<268435456, 0>>, <<0, 268435456>>, <<15, 0>>, <<-1073741824, 1073741824>>,
   <<MaxInt32, MinInt32>>}

Inputs(N) ==
  [kind : {"impulse"}, pos : {p \in 0..(N - 1) : p < MaxPos \/ p = N - 1},
   amp : Amplitudes]
  \cup [kind : {"const"}, pos : {0}, amp : {<<15, -16>>, <<1073741824, -1073741824>>}]
  \cup [kind : {"dense"}, pos : {0}, amp : {<<262144, 65536>>, <<37, 1000003>>}]

\* word i (real part at even i, imaginary part at odd i) of the buffer of input inp
InputWord(inp, i) ==
  LET n == i \div 2
      c == (i % 2) + 1
  IN  CASE inp.kind = "impulse" -> IF n = inp.pos THEN inp.amp[c] ELSE 0
        [] inp.kind = "const" -> inp.amp[c]
        [] inp.kind = "dense" ->
             inp.amp[c] * ((((n * 1103) + (c * 12345)) % 4096) - 2048)
        [] inp.kind = "square" ->
             \* a tone of period pos samples clipped to +-amp: the signs of its
             \* cosine (real part) and sine (imaginary part)
             LET ph == n % inp.pos
                 sg == IF c = 1
                         THEN IF 4 * ph < inp.pos \/ 4 * ph > 3 * inp.pos THEN 1
                              ELSE IF 4 * ph = inp.pos \/ 4 * ph = 3 * inp.pos THEN 0
                              ELSE -1
                         ELSE IF ph = 0 \/ 2 * ph = inp.pos THEN 0
                              ELSE IF 2 * ph < inp.pos THEN 1 ELSE -1
             IN  sg * inp.amp[c]

\* T callers, caller t with the buffer of 2 * N words at offset (t - 1) * 2 * N,
\* followed by pad words of memory that belong to no buffer and hold fill
InitWith(N, descs, inps, pad, fill, ncalls) ==
  LET T == Len(inps)
  IN  /\ mem = [i \in 0..((2 * N * T) + pad - 1) |->
                  IF i < 2 * N * T
                    THEN InputWord(inps[(i \div (2 * N)) + 1], i % (2 * N))
                    ELSE fill]
      /\ orig = mem
      /\ twiddleCoef = TwiddleInit
      /\ bitRevTable = riscvBitRevTable
      /\ inst = descs
      /\ pc = [t \in 1..T |-> "ready"]
      /\ arg = [t \in 1..T |-> [S |-> "cfft", pSrc |-> (t - 1) * 2 * N]]
      /\ loc = [t \in 1..T |-> NoLocals]
      /\ obs = [t \in 1..T |-> NoObs]
      /\ calls = [t \in 1..T |-> <<>>]
      /\ callsLeft = [t \in 1..T |-> ncalls]

\* one caller, a supported length, and two descriptors made for it: cifft with
\* ifftFlag 1, cfft with another ifftFlag (0 or the largest flag value), both
\* with the same bitReverseFlag b
Init ==
  \E N \in Lengths, b \in 0..MaxFlag, f \in {0, MaxFlag} :
    \E inp \in Inputs(N) :
      InitWith(N,
               [cfft |-> Descriptor(N, f, b, TableLen \div N),
                cifft |-> Descriptor(N, 1, b, TableLen \div N)],
               <<inp>>, 0, 0, MaxCalls)

Next ==
  \/ \E t \in Threads, d \in DOMAIN inst : Call(t, d)
  \/ \E t \in Threads : FwdFirst(t)
  \/ \E t \in Threads : FwdMiddle(t)
  \/ \E t \in Threads : FwdLast(t)
  \/ \E t \in Threads : InvFirst(t)
  \/ \E t \in Threads : InvMiddle(t)
  \/ \E t \in Threads : InvLast(t)
  \/ \E t \in Threads : BitReversal(t)
  \/ \E t \in Threads : SkipBitReversal(t)

Spec == Init /\ [][Next]_vars

(***************************************************************************)
(* Calls with a descriptor of any length fftLen >= 4, supported or not,    *)
(* with stride 1 and bit reversal off.  The buffer is followed by 2*fftLen *)
(* words of other memory.                                                  *)
(***************************************************************************)
MaxAnyLen == 88

AnyInputs ==
  {[kind |-> "dense", pos |-> 0, amp |-> <<262144, 65536>>],
   [kind |-> "impulse", pos |-> 0, amp |-> <<268435456, 0>>]}

InitAnyLen ==
  \E N \in 4..MaxAnyLen, f \in 0..1, inp \in AnyInputs :
    InitWith(N,
             [cfft |-> Descriptor(N, f, 0, 1)],
             <<inp>>, 2 * N, 77, 1)

NextAnyLen ==
  \/ \E t \in Threads, d \in DOMAIN inst : Call(t, d)
  \/ \E t \in Threads : FwdFirst(t)
  \/ \E t \in Threads : FwdMiddle(t)
  \/ \E t \in Threads : FwdLast(t)
  \/ \E t \in Threads : InvFirst(t)
  \/ \E t \in Threads : InvMiddle(t)
  \/ \E t \in Threads : InvLast(t)
  \/ \E t \in Threads : SkipBitReversal(t)

SpecAnyLen == InitAnyLen /\ [][NextAnyLen]_vars

\* a call in progress is not suspended: its next loop iteration eventually runs
FairAnyLen == SpecAnyLen /\ WF_vars(NextAnyLen)

(***************************************************************************)
(* Two callers that share the descriptors and the tables and pass disjoint *)
(* buffers; each makes one call, and their loop iterations interleave.     *)
(***************************************************************************)
ConcLengths == {16, 64}

ConcInputs ==
  <<[kind |-> "dense", pos |-> 0, amp |-> <<262144, 65536>>],
    [kind |-> "impulse", pos |-> 1, amp |-> <<-1073741824, 1073741824>>]>>

InitConc ==
  \E N \in ConcLengths, b \in 0..1 :
    InitWith(N,
             [cfft |-> Descriptor(N, 0, b, TableLen \div N),
              cifft |-> Descriptor(N, 1, b, TableLen \div N)],
             ConcInputs, 0, 0, 1)

SpecConc == InitConc /\ [][Next]_vars

(***************************************************************************)
(* One caller that makes a sequence of calls through two descriptors of a  *)
(* supported length, on one of two buffers.                                *)
(***************************************************************************)
InitFrame ==
  \E N \in Lengths, b \in 0..1, inp \in AnyInputs :
    InitWith(N,
             [cfft |-> Descriptor(N, 0, b, TableLen \div N),
              cifft |-> Descriptor(N, 1, b, TableLen \div N)],
             <<inp>>, 0, 0, MaxCalls)

SpecFrame == InitFrame /\ [][Next]_vars

(***************************************************************************)
(* One call, forward or inverse, on a full-scale buffer: a clipped tone    *)
(* whose bins do not fit in 32 bits, so that sums in the stages overflow.  *)
(***************************************************************************)
FullScaleInputs ==
  [kind : {"square"}, pos : {4, 8, 16}, amp : {<<MaxInt32, MaxInt32>>}]

InitFullScale ==
  \E N \in Lengths, b \in 0..1, inp \in FullScaleInputs :
    InitWith(N,
             [cfft |-> Descriptor(N, 0, b, TableLen \div N),
              cifft |-> Descriptor(N, 1, b, TableLen \div N)],
             <<inp>>, 0, 0, 1)

SpecFullScale == InitFullScale /\ [][Next]_vars

(***************************************************************************)
(* One call on a buffer that is a combination a * x + b * y, word by word, *)
(* of two buffers x and y kept in the memory after it (words 2N .. 4N - 1  *)
(* and 4N .. 6N - 1), which the call does not touch.                       *)
(***************************************************************************)
LinScalars == {-2, 1, 3}

LinInputsX ==
  {[kind |-> "dense", pos |-> 0, amp |-> <<65536, 16384>>],
   [kind |-> "const", pos |-> 0, amp |-> <<8, -8>>]}

LinInputsY ==
  {[kind |-> "dense", pos |-> 0, amp |-> <<-30000, 50000>>],
   [kind |-> "impulse", pos |-> 1, amp |-> <<-134217728, 134217728>>]}

InitLinear ==
  \E N \in Lengths, bf \in 0..1, a \in LinScalars, b \in LinScalars :
    \E x \in LinInputsX, y \in LinInputsY :
      /\ mem = [i \in 0..((6 * N) - 1) |->
                  IF i < 2 * N THEN (a * InputWord(x, i)) + (b * InputWord(y, i))
                  ELSE IF i < 4 * N THEN InputWord(x, i - (2 * N))
                  ELSE InputWord(y, i - (4 * N))]
      /\ orig = mem
      /\ twiddleCoef = TwiddleInit
      /\ bitRevTable = riscvBitRevTable
      /\ inst = [cfft |-> Descriptor(N, 0, bf, TableLen \div N),
                 cifft |-> Descriptor(N, 1, bf, TableLen \div N)]
      /\ pc = <<"ready">>
      /\ arg = <<[S |-> "cfft", pSrc |-> 0]>>
      /\ loc = <<NoLocals>>
      /\ obs = <<NoObs>>
      /\ calls = << <<>> >>
      /\ callsLeft = <<1>>

SpecLinear == InitLinear /\ [][Next]_vars

(***************************************************************************)
(* One call on every length 4^k from 4 up, with descriptors made for the   *)
(* length, and samples of at most 2^20 in magnitude.                       *)
(***************************************************************************)
Pow4Lengths == {Pow2(2 * k) : k \in 1..MaxLog4}

Pow4Inputs ==
  {[kind |-> "dense", pos |-> 0, amp |-> <<512, 256>>],
   [kind |-> "impulse", pos |-> 0, amp |-> <<1048576, 0>>],
   [kind |-> "impulse", pos |-> 1, amp |-> <<-1048576, 524288>>]}

InitPow4 ==
  \E N \in Pow4Lengths, b \in 0..1, inp \in Pow4Inputs :
    InitWith(N,
             [cfft |-> Descriptor(N, 0, b, TableLen \div N),
              cifft |-> Descriptor(N, 1, b, TableLen \div N)],
             <<inp>>, 0, 0, 1)

SpecPow4 == InitPow4 /\ [][Next]_vars

(***************************************************************************)
(* One call of an engine, without the bit-reversal pass, on every length   *)
(* 4^k from 4 up, with a coefficient table and a stride the caller chose:  *)
(* the library's table, for the lengths it serves, or a table of arbitrary *)
(* words, read through stride 1 or through the stride of the library's     *)
(* descriptors.  The buffer is followed by 8 words of other memory.        *)
(***************************************************************************)
MaxEngineLog4 == 4

EngineLengths == {Pow2(2 * k) : k \in 1..MaxEngineLog4}

\* a table for the largest length and the largest stride whose words are no
\* cosines or sines
ScrambledTable ==
  [i \in 0..((6 * Max(TableLen \div 4, Pow2((2 * MaxEngineLog4) - 2))) - 1) |->
     (((((i * 1103) + 12345) % 65536) - 32768) * 65536) + ((i * 40503) % 65536)]

EngineTables(N) == {ScrambledTable} \cup (IF N <= TableLen THEN {TwiddleInit} ELSE {})

EngineStrides(N) == {1} \cup (IF N <= TableLen THEN {TableLen \div N} ELSE {})

EngineInputs ==
  {[kind |-> "dense", pos |-> 0, amp |-> <<37, 1000003>>],
   [kind |-> "impulse", pos |-> 1, amp |-> <<-1073741824, 1073741824>>],
   [kind |-> "const", pos |-> 0, amp |-> <<15, -16>>],
   [kind |-> "const", pos |-> 0, amp |-> <<-1, 268435455>>],
   [kind |-> "const", pos |-> 0, amp |-> <<MaxInt32, MinInt32>>]}

InitEngine ==
  \E N \in EngineLengths, inp \in EngineInputs :
    \E M \in EngineStrides(N), tab \in EngineTables(N) :
      /\ mem = [i \in 0..((2 * N) + 7) |-> IF i < 2 * N THEN InputWord(inp, i) ELSE 77]
      /\ orig = mem
      /\ twiddleCoef = tab
      /\ bitRevTable = riscvBitRevTable
      /\ inst = [cfft |-> Descriptor(N, 0, 0, M), cifft |-> Descriptor(N, 1, 0, M)]
      /\ pc = <<"ready">>
      /\ arg = <<[S |-> "cfft", pSrc |-> 0]>>
      /\ loc = <<NoLocals>>
      /\ obs = <<NoObs>>
      /\ calls = << <<>> >>
      /\ callsLeft = <<1>>

SpecEngine == InitEngine /\ [][NextAnyLen]_vars

(***************************************************************************)
(* One call of an engine, without the bit-reversal pass, on a buffer whose *)
(* samples are all the same, for the four lengths of the library, through  *)
(* stride 1 and a table whose words are arbitrary or all the same.         *)
(***************************************************************************)
ConstLengths == {16, 64, 256, 1024}

ConstSamples == {<<15, -16>>, <<-1, 268435455>>, <<MaxInt32, MinInt32>>}

\* tables of 3 * N / 4 pairs: arbitrary words, or the most negative word throughout
ConstTables(N) ==
  {[i \in 0..((6 * (N \div 4)) - 1) |->
      (((((i * 1103) + 12345) % 65536) - 32768) * 65536) + ((i * 40503) % 65536)],
   [i \in 0..((6 * (N \div 4)) - 1) |-> MinInt32]}

InitConst ==
  \E N \in ConstLengths, cd \in ConstSamples :
    \E tab \in ConstTables(N) :
      /\ mem = [i \in 0..((2 * N) - 1) |-> cd[(i % 2) + 1]]
      /\ orig = mem
      /\ twiddleCoef = tab
      /\ bitRevTable = riscvBitRevTable
      /\ inst = [cfft |-> Descriptor(N, 0, 0, 1), cifft |-> Descriptor(N, 1, 0, 1)]
      /\ pc = <<"ready">>
      /\ arg = <<[S |-> "cfft", pSrc |-> 0]>>
      /\ loc = <<NoLocals>>
      /\ obs = <<NoObs>>
      /\ calls = << <<>> >>
      /\ callsLeft = <<1>>

SpecConst == InitConst /\ [][NextAnyLen]_vars

(***************************************************************************)
(* One call, forward or inverse, for each of the four lengths of the       *)
(* library, on a buffer that holds an impulse at sample 0.                 *)
(***************************************************************************)
ScaleInputs == [kind : {"impulse"}, pos : {0}, amp : Amplitudes]

InitScale ==
  \E N \in ConstLengths, b \in 0..MaxFlag, inp \in ScaleInputs :
    InitWith(N,
             [cfft |-> Descriptor(N, 0, b, TableLen \div N),
              cifft |-> Descriptor(N, 1, b, TableLen \div N)],
             <<inp>>, 0, 0, 1)

SpecScale == InitScale /\ [][Next]_vars

(***************************************************************************)
(* Two calls in a row on one buffer, each forward or inverse, for each of  *)
(* the four lengths of the library.                                        *)
(***************************************************************************)
RoundInputs ==
  {[kind |-> "dense", pos |-> 0, amp |-> <<262144, 65536>>],
   [kind |-> "const", pos |-> 0, amp |-> <<15, -16>>],
   [kind |-> "impulse", pos |-> 1, amp |-> <<-1073741824, 1073741824>>]}

InitRound ==
  \E N \in ConstLengths, b \in 0..1, inp \in RoundInputs :
    InitWith(N,
             [cfft |-> Descriptor(N, 0, b, TableLen \div N),
              cifft |-> Descriptor(N, 1, b, TableLen \div N)],
             <<inp>>, 0, 0, 2)

SpecRound == InitRound /\ [][Next]_vars

(***************************************************************************)
(* riscv_mat_mult_q31.  A matrix instance is a record numRows, numCols,    *)
(* pData; its data are numRows * numCols words of mem at pData, row by     *)
(* row.  inst holds the three instances under the names the call is given. *)
(* The accumulator sum is a 64-bit integer kept as three limbs,            *)
(* value = h * 2^32 + m * 2^16 + l, h a signed 32-bit word that wraps and  *)
(* m, l in 0 .. 65535.                                                     *)
(***************************************************************************)
Zero64 == [h |-> 0, m |-> 0, l |-> 0]

\* (q63_t) a * b, exactly
Mul64(a, b) ==
  CHOOSE r \in
    {LET a1 == x \div 65536
         a0 == x % 65536
         b1 == y \div 65536
         b0 == y % 65536
         P  == (a0 \div 256) * b0
         Q  == (a0 % 256) * b0
         t0 == Q + ((P % 256) * 256)
         c0 == (t0 \div 65536) + (P \div 256)
         u  == a1 * b0
         v  == a0 * b1
         mt == (u % 65536) + (v % 65536) + c0
     IN  [h |-> (a1 * b1) + (u \div 65536) + (v \div 65536) + (mt \div 65536),
          m |-> mt % 65536,
          l |-> t0 % 65536] : x \in {a}, y \in {b}} : TRUE

\* sum += ..., on 64 bits
Add64(x, y) ==
  LET lt == x.l + y.l
      mt == x.m + y.m + (lt \div 65536)
  IN  [h |-> Add32(Add32(x.h, y.h), mt \div 65536), m |-> mt % 65536, l |-> lt % 65536]

\* clip_q63_to_q31(sum >> 31): the accumulator shifted right by 31 bits and
\* saturated to 32 bits
clip_q63_to_q31_shr31(x) ==
  IF x.h >= 1073741824 THEN MaxInt32
  ELSE IF x.h < -1073741824 THEN MinInt32
  ELSE (2 * x.h) + (x.m \div 32768)

\* a size check that leaves out the comparison of the column counts of B and Dst
MatSizeMismatchNoCols(A, B, D) ==
  \/ A.numCols # B.numRows
  \/ A.numRows # D.numRows

\* "Check for matrix mismatch condition"
MatSizeMismatch(A, B, D) ==
  \/ A.numCols # B.numRows
  \/ A.numRows # D.numRows
  \/ B.numCols # D.numCols

MatNoLocals ==
  [pIn1 |-> 0, pIn2 |-> 0, pInA |-> 0, pOut |-> 0, px |-> 0, sum |-> Zero64,
   numRowsA |-> 0, numColsB |-> 0, numColsA |-> 0, pInB |-> 0,
   col |-> 0, i |-> 0, row |-> 0, colCnt |-> 0, status |-> "none"]

\* the declarations of riscv_mat_mult_q31 and the size check: the locals and the
\* position after them
MatEntry(A, B, D) ==
  LET l == [MatNoLocals EXCEPT !.pIn1 = A.pData, !.pIn2 = B.pData, !.pInA = A.pData,
                               !.pOut = D.pData, !.numRowsA = A.numRows,
                               !.numColsB = B.numCols, !.numColsA = A.numCols,
                               !.pInB = B.pData, !.i = 0, !.row = A.numRows]
  IN  IF MatSizeMismatch(A, B, D)
        THEN [l |-> [l EXCEPT !.status = "RISCV_MATH_SIZE_MISMATCH"], pc |-> "mat_return"]
        ELSE [l |-> l, pc |-> "mat_row"]

\* head of the row loop body: px = pOut + i; col = numColsB; pIn2 = pSrcB->pData
MatRowHead(l, B) == [l EXCEPT !.px = l.pOut + l.i, !.col = l.numColsB, !.pIn2 = B.pData]

\* head of the column loop body: sum = 0; pIn1 = pInA; colCnt = numColsA
MatColHead(l) == [l EXCEPT !.sum = Zero64, !.pIn1 = l.pInA, !.colCnt = l.numColsA]

\* one iteration of while(colCnt > 0u)
MatMacStep(l, m) ==
  [l EXCEPT !.sum = Add64(l.sum, Mul64(m[l.pIn1], m[l.pIn2])),
            !.pIn1 = @ + 1, !.pIn2 = @ + l.numColsB, !.colCnt = @ - 1]

\* after the while loop: the store through px, the end of the column loop body
\* and, after the last column, the end of the row loop body
MatStoreStep(l, m) ==
  LET m1  == [m EXCEPT ![l.px] = clip_q63_to_q31_shr31(l.sum)]
      col == (l.col - 1) % 65536
      l1  == [l EXCEPT !.px = @ + 1, !.col = col,
                       !.pIn2 = l.pInB + (l.numColsB - col)]
      row == (l.row - 1) % 65536
      l2  == [l1 EXCEPT !.i = (@ + l.numColsB) % 65536, !.pInA = @ + l.numColsA,
                        !.row = row]
  IN  IF col > 0 THEN [l |-> l1, m |-> m1, pc |-> "mat_col"]
      ELSE IF row > 0 THEN [l |-> l2, m |-> m1, pc |-> "mat_row"]
      ELSE [l |-> [l2 EXCEPT !.status = "RISCV_MATH_SUCCESS"], m |-> m1,
            pc |-> "mat_return"]

\* the step of riscv_mat_mult_q31 at position p with locals l and memory m
MatStep(p, l, m, B) ==
  CASE p = "mat_row" -> [l |-> MatRowHead(l, B), m |-> m, pc |-> "mat_col"]
    [] p = "mat_col" -> [l |-> MatColHead(l), m |-> m, pc |-> "mat_mac"]
    [] p = "mat_mac" /\ l.colCnt > 0 -> [l |-> MatMacStep(l, m), m |-> m, pc |-> "mat_mac"]
    [] p = "mat_mac" /\ l.colCnt = 0 -> MatStoreStep(l, m)

RECURSIVE MatRun(_, _, _, _)
MatRun(p, l, m, B) ==
  IF p = "mat_return" THEN [status |-> l.status, mem |-> m]
  ELSE CHOOSE r \in {MatRun(s.pc, s.l, s.m, B) : s \in {MatStep(p, l, m, B)}} : TRUE

\* the whole call: the status returned and the memory left
riscv_mat_mult_q31(A, B, D, m) ==
  LET e == MatEntry(A, B, D)
  IN  MatRun(e.pc, e.l, m, B)

MatCall(t) ==
  /\ pc[t] = "ready"
  /\ callsLeft[t] > 0
  /\ LET e == MatEntry(inst[arg[t].pSrcA], inst[arg[t].pSrcB], inst[arg[t].pDst])
     IN  /\ loc' = [loc EXCEPT ![t] = e.l]
         /\ pc' = [pc EXCEPT ![t] = e.pc]
  /\ calls' = [calls EXCEPT ![t] = Append(@, "riscv_mat_mult_q31")]
  /\ callsLeft' = [callsLeft EXCEPT ![t] = @ - 1]
  /\ UNCHANGED <<mem, twiddleCoef, bitRevTable, inst, arg, obs, orig>>

MatAt(t, p) ==
  /\ pc[t] = p
  /\ LET s == MatStep(p, loc[t], mem, inst[arg[t].pSrcB])
     IN  /\ loc' = [loc EXCEPT ![t] = s.l]
         /\ mem' = s.m
         /\ pc' = [pc EXCEPT ![t] = s.pc]
  /\ UNCHANGED <<twiddleCoef, bitRevTable, inst, arg, obs, calls, callsLeft, orig>>

MatRow(t) == MatAt(t, "mat_row")

MatCol(t) == MatAt(t, "mat_col")

MatMac(t) == loc[t].colCnt > 0 /\ MatAt(t, "mat_mac")

MatStore(t) == loc[t].colCnt = 0 /\ MatAt(t, "mat_mac")

\* return (status): the caller receives the status
MatReturn(t) ==
  /\ pc[t] = "mat_return"
  /\ pc' = [pc EXCEPT ![t] = "ready"]
  /\ obs' = [obs EXCEPT ![t] = Append(@, loc[t].status)]
  /\ UNCHANGED <<mem, twiddleCoef, bitRevTable, inst, arg, loc, calls, callsLeft, orig>>

MaxDim == 2

MatPatterns == {"ramp", "corner", "big"}

\* entry idx of the data of a matrix
MatWord(pat, idx) ==
  CASE pat = "ramp" -> 134217728 * ((((idx * 7) + 3) % 11) - 5)
    [] pat = "corner" -> IF idx = 0 THEN MinInt32 ELSE 0
    [] pat = "big" -> IF idx % 2 = 0 THEN MaxInt32 ELSE -1073741824

\* the data of A, B and Dst lie one after the other, MaxDim * MaxDim words each;
\* the destination holds 77 in every word
InitMat ==
  \E rA \in 1..MaxDim, cA \in 1..MaxDim, rB \in 1..MaxDim, cB \in 1..MaxDim :
    \E rD \in 1..MaxDim, cD \in 1..MaxDim, pat \in MatPatterns :
      /\ mem = [i \in 0..((3 * MaxDim * MaxDim) - 1) |->
                  IF i < 2 * MaxDim * MaxDim THEN MatWord(pat, i % (MaxDim * MaxDim))
                  ELSE 77]
      /\ orig = mem
      /\ twiddleCoef = TwiddleInit
      /\ bitRevTable = riscvBitRevTable
      /\ inst = [A |-> [numRows |-> rA, numCols |-> cA, pData |-> 0],
                 B |-> [numRows |-> rB, numCols |-> cB, pData |-> MaxDim * MaxDim],
                 Dst |-> [numRows |-> rD, numCols |-> cD, pData |-> 2 * MaxDim * MaxDim]]
      /\ pc = <<"ready">>
      /\ arg = <<[pSrcA |-> "A", pSrcB |-> "B", pDst |-> "Dst"]>>
      /\ loc = <<MatNoLocals>>
      /\ obs = << <<>> >>
      /\ calls = << <<>> >>
      /\ callsLeft = <<1>>

NextMat ==
  \/ \E t \in Threads : MatCall(t)
  \/ \E t \in Threads : MatRow(t)
  \/ \E t \in Threads : MatCol(t)
  \/ \E t \in Threads : MatMac(t)
  \/ \E t \in Threads : MatStore(t)
  \/ \E t \in Threads : MatReturn(t)

SpecMat == InitMat /\ [][NextMat]_vars

(***************************************************************************)
(* riscv_fir_interpolate_q31.  The instance S is a record L, phaseLength,  *)
(* pCoeffs, pState; the coefficients, the state buffer, the input and the  *)
(* output are words of mem.  The caller hands the input over block by      *)
(* block: callsLeft counts the samples not yet handed over, calls records  *)
(* the block sizes, and arg holds the arguments of the latest call.        *)
(***************************************************************************)
\* (q31_t) (sum >> 31): bits 31 .. 62 of the accumulator
TruncShr31(x) == Add32(Add32(x.h, x.h), x.m \div 32768)

RECURSIVE FirInterpTaps(_, _, _, _, _, _)
\* while(tapCnt > 0u): the accumulator after the remaining tapCnt taps
FirInterpTaps(m, sum, ptr1, ptr2, L, tapCnt) ==
  IF tapCnt = 0 THEN sum
  ELSE CHOOSE r \in {FirInterpTaps(m, s, ptr1 + 1, ptr2 + L, L, tapCnt - 1) :
                       s \in {Add64(sum, Mul64(m[ptr1], m[ptr2]))}} : TRUE

FirInterpNoLocals ==
  [SpState |-> 0, L |-> 0, pState |-> 0, pCoeffs |-> 0, pStateCurnt |-> 0,
   pSrc |-> 0, pDst |-> 0, i |-> 0, blkCnt |-> 0, phaseLen |-> 0, tapCnt |-> 0]

\* after the block loop: pStateCurnt = S->pState; tapCnt = phaseLen - 1u
FirInterpCopyInit(l) ==
  LET tapCnt == (l.phaseLen - 1) % 65536
  IN  [l |-> [l EXCEPT !.pStateCurnt = l.SpState, !.tapCnt = tapCnt],
       pc |-> IF tapCnt > 0 THEN "fir_copy" ELSE "fir_return"]

\* the declarations and the statements before the block loop
FirInterpEntry(S, pSrc, pDst, blockSize) ==
  LET l == [FirInterpNoLocals EXCEPT !.SpState = S.pState, !.L = S.L,
                                     !.pState = S.pState, !.pCoeffs = S.pCoeffs,
                                     !.phaseLen = S.phaseLength,
                                     !.pStateCurnt = S.pState + (S.phaseLength - 1),
                                     !.pSrc = pSrc, !.pDst = pDst,
                                     !.blkCnt = blockSize]
  IN  IF blockSize > 0 THEN [l |-> l, pc |-> "fir_sample"] ELSE FirInterpCopyInit(l)

\* a block loop that does not advance pState
FirInterpBlockEndNoAdvance(l) ==
  LET l1 == [l EXCEPT !.blkCnt = @ - 1]
  IN  IF l1.blkCnt > 0 THEN [l |-> l1, pc |-> "fir_sample"] ELSE FirInterpCopyInit(l1)

\* end of the block loop body: pState = pState + 1; blkCnt--
FirInterpBlockEnd(l) ==
  LET l1 == [l EXCEPT !.pState = @ + 1, !.blkCnt = @ - 1]
  IN  IF l1.blkCnt > 0 THEN [l |-> l1, pc |-> "fir_sample"] ELSE FirInterpCopyInit(l1)

\* head of the block loop body: *pStateCurnt++ = *pSrc++; i = S->L
FirInterpSampleStep(l, m) ==
  LET m1 == [m EXCEPT ![l.pStateCurnt] = m[l.pSrc]]
      l1 == [l EXCEPT !.pStateCurnt = @ + 1, !.pSrc = @ + 1, !.i = l.L]
  IN  IF l1.i > 0 THEN [l |-> l1, m |-> m1, pc |-> "fir_phase"]
      ELSE LET e == FirInterpBlockEnd(l1) IN [l |-> e.l, m |-> m1, pc |-> e.pc]

\* one iteration of while(i > 0u): one output sample
FirInterpPhaseStep(l, m) ==
  LET sum == FirInterpTaps(m, Zero64, l.pState, l.pCoeffs + (l.i - 1), l.L, l.phaseLen)
      m1  == [m EXCEPT ![l.pDst] = TruncShr31(sum)]
      l1  == [l EXCEPT !.pDst = @ + 1, !.i = @ - 1]
  IN  IF l1.i > 0 THEN [l |-> l1, m |-> m1, pc |-> "fir_phase"]
      ELSE LET e == FirInterpBlockEnd(l1) IN [l |-> e.l, m |-> m1, pc |-> e.pc]

\* one iteration of the copy loop: *pStateCurnt++ = *pState++; tapCnt--
FirInterpCopyStep(l, m) ==
  LET m1 == [m EXCEPT ![l.pStateCurnt] = m[l.pState]]
      l1 == [l EXCEPT !.pStateCurnt = @ + 1, !.pState = @ + 1, !.tapCnt = @ - 1]
  IN  [l |-> l1, m |-> m1, pc |-> IF l1.tapCnt > 0 THEN "fir_copy" ELSE "fir_return"]

FirInterpStep(p, l, m) ==
  CASE p = "fir_sample" -> FirInterpSampleStep(l, m)
    [] p = "fir_phase" -> FirInterpPhaseStep(l, m)
    [] p = "fir_copy" -> FirInterpCopyStep(l, m)

RECURSIVE FirInterpRun(_, _, _)
FirInterpRun(p, l, m) ==
  IF p = "fir_return" THEN m
  ELSE CHOOSE r \in {FirInterpRun(s.pc, s.l, s.m) : s \in {FirInterpStep(p, l, m)}} : TRUE

\* the whole call: the memory it leaves
riscv_fir_interpolate_q31(S, m, pSrc, pDst, blockSize) ==
  LET e == FirInterpEntry(S, pSrc, pDst, blockSize)
  IN  FirInterpRun(e.pc, e.l, m)

\* the caller hands over the next bs samples: the input and output pointers move
\* past what the calls before have consumed and produced
FirInterpCall(t) ==
  /\ pc[t] = "ready"
  /\ \E bs \in 1..callsLeft[t] :
       LET a == [arg[t] EXCEPT !.pSrc = @ + arg[t].blockSize,
                               !.pDst = @ + (arg[t].blockSize * inst[arg[t].S].L),
                               !.blockSize = bs]
           e == FirInterpEntry(inst[a.S], a.pSrc, a.pDst, a.blockSize)
       IN  /\ arg' = [arg EXCEPT ![t] = a]
           /\ loc' = [loc EXCEPT ![t] = e.l]
           /\ pc' = [pc EXCEPT ![t] = e.pc]
           /\ calls' = [calls EXCEPT ![t] = Append(@, bs)]
           /\ callsLeft' = [callsLeft EXCEPT ![t] = @ - bs]
  /\ UNCHANGED <<mem, twiddleCoef, bitRevTable, inst, obs, orig>>

FirInterpAt(t, p) ==
  /\ pc[t] = p
  /\ LET s == FirInterpStep(p, loc[t], mem)
     IN  /\ loc' = [loc EXCEPT ![t] = s.l]
         /\ mem' = s.m
         /\ pc' = [pc EXCEPT ![t] = s.pc]
  /\ UNCHANGED <<twiddleCoef, bitRevTable, inst, arg, obs, calls, callsLeft, orig>>

FirInterpSample(t) == FirInterpAt(t, "fir_sample")

FirInterpPhase(t) == FirInterpAt(t, "fir_phase")

FirInterpCopy(t) == FirInterpAt(t, "fir_copy")

\* the function returns nothing; obs counts the calls that have returned
FirInterpReturn(t) ==
  /\ pc[t] = "fir_return"
  /\ pc' = [pc EXCEPT ![t] = "ready"]
  /\ obs' = [obs EXCEPT ![t] = @ + 1]
  /\ UNCHANGED <<mem, twiddleCoef, bitRevTable, inst, arg, loc, calls, callsLeft, orig>>

MaxInterp == 2

MaxPhaseLen == 3

MaxSamples == 3

FirPatterns == {"ramp", "big"}

\* word idx of the coefficients (which = 0) or of the input (which = 1)
FirWord(pat, which, idx) ==
  CASE pat = "ramp" -> 67108864 * ((((idx * 5) + (which * 3) + 2) % 13) - 6)
    [] pat = "big" -> IF (idx + which) % 2 = 0 THEN MaxInt32 - idx ELSE -1073741824 + idx

\* the coefficients, the zeroed state buffer of total + phaseLength - 1 words, the
\* total input samples and the total * L output words, which hold 77
InitFirInterp ==
  \E L \in 1..MaxInterp, P \in 1..MaxPhaseLen, total \in 1..MaxSamples :
    \E pat \in FirPatterns :
      LET pState == L * P
          pSrc   == pState + total + P - 1
          pDst   == pSrc + total
      IN  /\ mem = [i \in 0..(pDst + (total * L) - 1) |->
                      IF i < pState THEN FirWord(pat, 0, i)
                      ELSE IF i < pSrc THEN 0
                      ELSE IF i < pDst THEN FirWord(pat, 1, i - pSrc)
                      ELSE 77]
          /\ orig = mem
          /\ twiddleCoef = TwiddleInit
          /\ bitRevTable = riscvBitRevTable
          /\ inst = [S |-> [L |-> L, phaseLength |-> P, pCoeffs |-> 0, pState |-> pState]]
          /\ pc = <<"ready">>
          /\ arg = <<[S |-> "S", pSrc |-> pSrc, pDst |-> pDst, blockSize |-> 0]>>
          /\ loc = <<FirInterpNoLocals>>
          /\ obs = <<0>>
          /\ calls = << <<>> >>
          /\ callsLeft = <<total>>

NextFirInterp ==
  \/ \E t \in Threads : FirInterpCall(t)
  \/ \E t \in Threads : FirInterpSample(t)
  \/ \E t \in Threads : FirInterpPhase(t)
  \/ \E t \in Threads : FirInterpCopy(t)
  \/ \E t \in Threads : FirInterpReturn(t)

SpecFirInterp == InitFirInterp /\ [][NextFirInterp]_vars

(***************************************************************************)
(* riscv_fir_q15, in its two builds: with USE_DSP_RISCV defined (four      *)
(* outputs at a time on pairs of 16-bit samples) and without.  The         *)
(* instance S is a record numTaps, pState, pCoeffs, and build names the    *)
(* build; the coefficients, the state buffer, the input and the output are *)
(* 16-bit words of mem.  A shortV is the pair of words at p and p + 1.     *)
(***************************************************************************)
NullPtr == -1

\* *(shortV*) p
ShortV(m, p) == <<m[p], m[p + 1]>>

\* dotpv2(a, b): a[0] * b[0] + a[1] * b[1] on 32 bits
dotpv2(a, b) == Add32(a[1] * b[1], a[2] * b[2])

\* a 32-bit integer widened to the 64-bit accumulator
Int64(d) == [h |-> IF d < 0 THEN -1 ELSE 0, m |-> (d \div 65536) % 65536, l |-> d % 65536]

\* the accumulator >> 15, saturated to 16 bits:
\* clip((acc >> 15), -32768, 32767) and __SSAT((acc >> 15), 16)
SatShr15(acc) ==
  IF acc.h > 0 THEN 32767
  ELSE IF acc.h < -1 THEN -32768
  ELSE LET v == (acc.h * 131072) + (2 * acc.m) + (acc.l \div 32768)
       IN  IF v > 32767 THEN 32767 ELSE IF v < -32768 THEN -32768 ELSE v

FirQ15NoLocals ==
  [SpState |-> 0, blockSize |-> 0, pState |-> 0, pCoeffs |-> 0, pStateCurnt |-> 0,
   numTaps |-> 0, tapCnt |-> 0, blkCnt |-> 0, pSrc |-> 0, pDst |-> 0,
   VectInA |-> NullPtr, VectInB |-> NullPtr]

\* the build without USE_DSP_RISCV -----------------------------------------

\* after the block loop: pStateCurnt = S->pState; tapCnt = (numTaps - 1u)
FirQ15CopyInit(l) ==
  LET l1 == [l EXCEPT !.pStateCurnt = l.SpState, !.tapCnt = l.numTaps - 1]
  IN  [l |-> l1, pc |-> IF l1.tapCnt > 0 THEN "q15_copy" ELSE "q15_return"]

\* the declarations and the statements before the block loop
FirQ15Entry(S, pSrc, pDst, blockSize) ==
  LET l == [FirQ15NoLocals EXCEPT !.SpState = S.pState, !.blockSize = blockSize,
                                  !.pState = S.pState, !.pCoeffs = S.pCoeffs,
                                  !.numTaps = S.numTaps,
                                  !.pStateCurnt = S.pState + (S.numTaps - 1),
                                  !.blkCnt = blockSize, !.pSrc = pSrc, !.pDst = pDst]
  IN  IF l.blkCnt > 0 THEN [l |-> l, pc |-> "q15_sample"] ELSE FirQ15CopyInit(l)

RECURSIVE FirQ15Taps(_, _, _, _, _)
\* do { acc += (q31_t) * px++ * *pb++; tapCnt--; } while(tapCnt > 0u)
FirQ15Taps(m, acc, px, pb, tapCnt) ==
  LET a == Add64(acc, Int64(m[px] * m[pb]))
  IN  IF tapCnt - 1 > 0
        THEN CHOOSE r \in {FirQ15Taps(m, x, px + 1, pb + 1, tapCnt - 1) : x \in {a}} : TRUE
        ELSE a

\* one iteration of the block loop
FirQ15SampleStep(l, m) ==
  LET m1  == [m EXCEPT ![l.pStateCurnt] = m[l.pSrc]]
      acc == FirQ15Taps(m1, Zero64, l.pState, l.pCoeffs, l.numTaps)
      m2  == [m1 EXCEPT ![l.pDst] = SatShr15(acc)]
      l1  == [l EXCEPT !.pStateCurnt = @ + 1, !.pSrc = @ + 1, !.pDst = @ + 1,
                       !.pState = @ + 1, !.blkCnt = @ - 1]
  IN  IF l1.blkCnt > 0 THEN [l |-> l1, m |-> m2, pc |-> "q15_sample"]
      ELSE LET e == FirQ15CopyInit(l1) IN [l |-> e.l, m |-> m2, pc |-> e.pc]

\* one iteration of the copy loop: *pStateCurnt++ = *pState++; tapCnt--
FirQ15CopyStep(l, m, again, done) ==
  LET m1 == [m EXCEPT ![l.pStateCurnt] = m[l.pState]]
      l1 == [l EXCEPT !.pStateCurnt = @ + 1, !.pState = @ + 1, !.tapCnt = @ - 1]
  IN  [l |-> l1, m |-> m1, pc |-> IF l1.tapCnt > 0 THEN again ELSE done]

\* the build with USE_DSP_RISCV --------------------------------------------

\* "Calculation of count for remaining q15_t data": tapCnt = (numTaps - 1u) % 0x4u
FirDspCopy1Init(l) ==
  LET l1 == [l EXCEPT !.tapCnt = (l.numTaps - 1) % 4]
  IN  [l |-> l1, pc |-> IF l1.tapCnt > 0 THEN "dsp_copy1" ELSE "q15_return"]

\* after the block loops: pStateCurnt = S->pState; tapCnt = (numTaps - 1u) >> 2
FirDspCopyInit(l) ==
  LET l1 == [l EXCEPT !.pStateCurnt = l.SpState, !.tapCnt = (l.numTaps - 1) \div 4]
  IN  IF l1.tapCnt > 0 THEN [l |-> l1, pc |-> "dsp_copy4"] ELSE FirDspCopy1Init(l1)

\* after the unrolled block loop: blkCnt = blockSize % 0x4u
FirDspRestInit(l) ==
  LET l1 == [l EXCEPT !.blkCnt = l.blockSize % 4]
  IN  IF l1.blkCnt > 0 THEN [l |-> l1, pc |-> "dsp_rest"] ELSE FirDspCopyInit(l1)

\* the declarations and the statements before the unrolled block loop
FirDspEntry(S, pSrc, pDst, blockSize) ==
  LET l == [FirQ15NoLocals EXCEPT !.SpState = S.pState, !.blockSize = blockSize,
                                  !.pState = S.pState, !.pCoeffs = S.pCoeffs,
                                  !.numTaps = S.numTaps,
                                  !.pStateCurnt = S.pState + (S.numTaps - 1),
                                  !.blkCnt = blockSize \div 4, !.pSrc = pSrc,
                                  !.pDst = pDst, !.VectInA = NullPtr]
  IN  IF l.blkCnt > 0 THEN [l |-> l, pc |-> "dsp_quad"] ELSE FirDspRestInit(l)

\* one iteration of the tap loop unrolled by 4, on the accumulators and pointers s
FirDspTapBody(m, s) ==
  LET C1 == ShortV(m, s.pb)
      C2 == ShortV(m, s.pb + 2)
      D  == s.px1
      E  == s.px1 + 1
      A2 == s.px1 + 2
      B2 == s.px1 + 3
  IN  [acc0 |-> Add64(Add64(s.acc0, Int64(dotpv2(ShortV(m, s.A), C1))),
                      Int64(dotpv2(ShortV(m, D), C2))),
       acc1 |-> Add64(Add64(s.acc1, Int64(dotpv2(ShortV(m, s.B), C1))),
                      Int64(dotpv2(ShortV(m, E), C2))),
       acc2 |-> Add64(Add64(s.acc2, Int64(dotpv2(ShortV(m, D), C1))),
                      Int64(dotpv2(ShortV(m, A2), C2))),
       acc3 |-> Add64(Add64(s.acc3, Int64(dotpv2(ShortV(m, E), C1))),
                      Int64(dotpv2(ShortV(m, B2), C2))),
       px1 |-> s.px1 + 4, pb |-> s.pb + 4, A |-> A2, B |-> B2]

RECURSIVE FirDspTapLoop(_, _, _)
FirDspTapLoop(m, s, tapCnt) ==
  IF tapCnt = 0 THEN s
  ELSE CHOOSE r \in {FirDspTapLoop(m, x, tapCnt - 1) : x \in {FirDspTapBody(m, s)}} : TRUE

\* if((numTaps & 0x3u) != 0u): the two remaining taps
FirDspTapTail(m, s) ==
  LET C == ShortV(m, s.pb)
  IN  [s EXCEPT !.acc0 = Add64(@, Int64(dotpv2(ShortV(m, s.A), C))),
                !.acc1 = Add64(@, Int64(dotpv2(ShortV(m, s.B), C))),
                !.acc2 = Add64(@, Int64(dotpv2(ShortV(m, s.px1), C))),
                !.acc3 = Add64(@, Int64(dotpv2(ShortV(m, s.px1 + 1), C))),
                !.pb = @ + 2, !.px1 = @ + 2]

\* one iteration of the unrolled block loop: four inputs in, four outputs out
FirDspQuadStep(l, m) ==
  LET m1 == [m EXCEPT ![l.pStateCurnt] = m[l.pSrc],
                      ![l.pStateCurnt + 1] = m[l.pSrc + 1],
                      ![l.pStateCurnt + 2] = m[l.pSrc + 2],
                      ![l.pStateCurnt + 3] = m[l.pSrc + 3]]
      s0 == [acc0 |-> Zero64, acc1 |-> Zero64, acc2 |-> Zero64, acc3 |-> Zero64,
             px1 |-> l.pState + 2, pb |-> l.pCoeffs, A |-> l.pState, B |-> l.pState + 1]
      s1 == FirDspTapLoop(m1, s0, l.numTaps \div 4)
      s2 == IF l.numTaps % 4 # 0 THEN FirDspTapTail(m1, s1) ELSE s1
      m2 == [m1 EXCEPT ![l.pDst] = SatShr15(s2.acc0), ![l.pDst + 1] = SatShr15(s2.acc1),
                       ![l.pDst + 2] = SatShr15(s2.acc2),
                       ![l.pDst + 3] = SatShr15(s2.acc3)]
      l1 == [l EXCEPT !.pStateCurnt = @ + 4, !.pSrc = @ + 4, !.pDst = @ + 4,
                      !.pState = @ + 4, !.blkCnt = @ - 1,
                      !.VectInA = s2.A, !.VectInB = s2.B]
  IN  IF l1.blkCnt > 0 THEN [l |-> l1, m |-> m2, pc |-> "dsp_quad"]
      ELSE LET e == FirDspRestInit(l1) IN [l |-> e.l, m |-> m2, pc |-> e.pc]

RECURSIVE FirDspRestTaps(_, _, _, _, _)
\* do { VectInC = pb; pb += 2; ...; acc0 += dotpv2(*VectInA, *VectInC); tapCnt--; }
\* while(tapCnt > 0u), a being what *VectInA reads
FirDspRestTaps(m, acc, a, pb, tapCnt) ==
  LET x == Add64(acc, Int64(dotpv2(a, ShortV(m, pb))))
  IN  IF tapCnt - 1 > 0
        THEN CHOOSE r \in {FirDspRestTaps(m, y, a, pb + 2, tapCnt - 1) : y \in {x}} : TRUE
        ELSE x

\* one iteration of the loop over the blockSize % 4 remaining samples; a is what
\* *VectInA reads
FirDspRestStep(l, m, a) ==
  LET m1  == [m EXCEPT ![l.pStateCurnt] = m[l.pSrc]]
      acc == FirDspRestTaps(m1, Zero64, a, l.pCoeffs, l.numTaps \div 2)
      m2  == [m1 EXCEPT ![l.pDst] = SatShr15(acc)]
      l1  == [l EXCEPT !.pStateCurnt = @ + 1, !.pSrc = @ + 1, !.pDst = @ + 1,
                       !.pState = @ + 1, !.blkCnt = @ - 1]
  IN  IF l1.blkCnt > 0 THEN [l |-> l1, m |-> m2, pc |-> "dsp_rest"]
      ELSE LET e == FirDspCopyInit(l1) IN [l |-> e.l, m |-> m2, pc |-> e.pc]

\* a copy loop that advances pState by the four samples it copies
FirDspCopy4StepAdvancing(l, m) ==
  LET m1 == [m EXCEPT ![l.pStateCurnt] = m[l.pState],
                      ![l.pStateCurnt + 1] = m[l.pState + 1]]
      m2 == [m1 EXCEPT ![l.pStateCurnt + 2] = m1[l.pState + 2],
                       ![l.pStateCurnt + 3] = m1[l.pState + 3]]
      l1 == [l EXCEPT !.pStateCurnt = @ + 4, !.pState = @ + 4, !.tapCnt = @ - 1]
  IN  IF l1.tapCnt > 0 THEN [l |-> l1, m |-> m2, pc |-> "dsp_copy4"]
      ELSE LET e == FirDspCopy1Init(l1) IN [l |-> e.l, m |-> m2, pc |-> e.pc]

\* what the second *(shortV*)pState of an iteration of the copy loop may give: the
\* pair at pState after the first store, or the pair the first read gave.  The
\* two differ when the first store overlaps the pair at pState by one word; one
\* of the two accesses is then not aligned for a shortV, and a build may read
\* the pair again or keep the one it has
FirDspCopy4Reads(l, m) ==
  {ShortV([m EXCEPT ![l.pStateCurnt] = m[l.pState],
                    ![l.pStateCurnt + 1] = m[l.pState + 1]], l.pState),
   ShortV(m, l.pState)}

\* one iteration of the copy loop that moves two pairs: both pairs are read at
\* pState, and it is pSrc that advances; a is what the second read gives
FirDspCopy4Step(l, m, a) ==
  LET m1 == [m EXCEPT ![l.pStateCurnt] = m[l.pState],
                      ![l.pStateCurnt + 1] = m[l.pState + 1]]
      m2 == [m1 EXCEPT ![l.pStateCurnt + 2] = a[1],
                       ![l.pStateCurnt + 3] = a[2]]
      l1 == [l EXCEPT !.pStateCurnt = @ + 4, !.pSrc = @ + 4, !.tapCnt = @ - 1]
  IN  IF l1.tapCnt > 0 THEN [l |-> l1, m |-> m2, pc |-> "dsp_copy4"]
      ELSE LET e == FirDspCopy1Init(l1) IN [l |-> e.l, m |-> m2, pc |-> e.pc]

\* what a read through the null pointer VectInA may return
NullReads == {<<0, 0>>, <<-1, 32767>>}

\* the steps of the call at position p; a is what the read of that step that the
\* code leaves open gives: *VectInA, or the second *pState of the copy loop
FirQ15Step(p, l, m, a) ==
  CASE p = "q15_sample" -> FirQ15SampleStep(l, m)
    [] p = "q15_copy" -> FirQ15CopyStep(l, m, "q15_copy", "q15_return")
    [] p = "dsp_quad" -> FirDspQuadStep(l, m)
    [] p = "dsp_rest" -> FirDspRestStep(l, m, a)
    [] p = "dsp_copy4" -> FirDspCopy4Step(l, m, a)
    [] p = "dsp_copy1" -> FirQ15CopyStep(l, m, "dsp_copy1", "q15_return")

\* the values *VectInA may read at position p
VectInAReads(p, l, m) ==
  IF p # "dsp_rest" THEN {<<0, 0>>}
  ELSE IF l.VectInA = NullPtr THEN NullReads
  ELSE {ShortV([m EXCEPT ![l.pStateCurnt] = m[l.pSrc]], l.VectInA)}

\* the values the open read of the step at position p may give
FirQ15Reads(p, l, m) ==
  IF p = "dsp_copy4" THEN FirDspCopy4Reads(l, m) ELSE VectInAReads(p, l, m)

RECURSIVE FirQ15Run(_, _, _)
\* the memories the call may leave from position p
FirQ15Run(p, l, m) ==
  IF p = "q15_return" THEN {m}
  ELSE UNION {FirQ15Run(s.pc, s.l, s.m) :
                s \in {FirQ15Step(p, l, m, a) : a \in FirQ15Reads(p, l, m)}}

\* the whole call in the given build: the memories it may leave
riscv_fir_q15(build, S, m, pSrc, pDst, blockSize) ==
  LET e == IF build = "USE_DSP_RISCV" THEN FirDspEntry(S, pSrc, pDst, blockSize)
           ELSE FirQ15Entry(S, pSrc, pDst, blockSize)
  IN  FirQ15Run(e.pc, e.l, m)

FirQ15Call(t) ==
  /\ pc[t] = "ready"
  /\ callsLeft[t] > 0
  /\ LET a == arg[t]
         e == IF inst.build = "USE_DSP_RISCV"
                THEN FirDspEntry(inst[a.S], a.pSrc, a.pDst, a.blockSize)
                ELSE FirQ15Entry(inst[a.S], a.pSrc, a.pDst, a.blockSize)
     IN  /\ loc' = [loc EXCEPT ![t] = e.l]
         /\ pc' = [pc EXCEPT ![t] = e.pc]
  /\ calls' = [calls EXCEPT ![t] = Append(@, inst.build)]
  /\ callsLeft' = [callsLeft EXCEPT ![t] = @ - 1]
  /\ UNCHANGED <<mem, twiddleCoef, bitRevTable, inst, arg, obs, orig>>

FirQ15At(t, p) ==
  /\ pc[t] = p
  /\ \E a \in FirQ15Reads(p, loc[t], mem) :
       LET s == FirQ15Step(p, loc[t], mem, a)
       IN  /\ loc' = [loc EXCEPT ![t] = s.l]
           /\ mem' = s.m
           /\ pc' = [pc EXCEPT ![t] = s.pc]
  /\ UNCHANGED <<twiddleCoef, bitRevTable, inst, arg, obs, calls, callsLeft, orig>>

FirQ15Sample(t) == FirQ15At(t, "q15_sample")

FirQ15Copy(t) == FirQ15At(t, "q15_copy")

FirDspQuad(t) == FirQ15At(t, "dsp_quad")

FirDspRest(t) == FirQ15At(t, "dsp_rest")

\* the read through the null pointer stops the program, in the first turn of the
\* tap loop: the input sample is in the state buffer and tapCnt is set by then
FirDspTrap(t) ==
  /\ pc[t] = "dsp_rest"
  /\ loc[t].VectInA = NullPtr
  /\ mem' = [mem EXCEPT ![loc[t].pStateCurnt] = mem[loc[t].pSrc]]
  /\ loc' = [loc EXCEPT ![t] = [@ EXCEPT !.pStateCurnt = @ + 1, !.pSrc = @ + 1,
                                         !.tapCnt = loc[t].numTaps \div 2]]
  /\ pc' = [pc EXCEPT ![t] = "trapped"]
  /\ UNCHANGED <<twiddleCoef, bitRevTable, inst, arg, obs, calls, callsLeft, orig>>

FirDspCopy4(t) == FirQ15At(t, "dsp_copy4")

FirDspCopy1(t) == FirQ15At(t, "dsp_copy1")

FirQ15Return(t) ==
  /\ pc[t] = "q15_return"
  /\ pc' = [pc EXCEPT ![t] = "ready"]
  /\ obs' = [obs EXCEPT ![t] = @ + 1]
  /\ UNCHANGED <<mem, twiddleCoef, bitRevTable, inst, arg, loc, calls, callsLeft, orig>>

MaxTaps == 6

MaxBlock == 5

\* the filter lengths of a build: any length without USE_DSP_RISCV, the even
\* lengths from 4 up with it
TapsOf(build) ==
  IF build = "USE_DSP_RISCV" THEN {n \in 4..MaxTaps : n % 2 = 0} ELSE 1..MaxTaps

Q15Patterns == {"ramp", "big"}

\* word idx of the coefficients (which = 0), of the previous state (which = 1)
\* or of the input (which = 2)
Q15Word(pat, which, idx) ==
  CASE pat = "ramp" -> 1000 * ((((idx * 5) + (which * 7) + 2) % 13) - 6) + idx + which
    [] pat = "big" -> IF (idx + which) % 2 = 0 THEN 32767 - idx ELSE -32768 + (which * idx)

\* the coefficients, the state buffer of numTaps + blockSize - 1 words with the
\* previous state in its first numTaps - 1, the input block and the output block,
\* which holds 77
InitFirQ15 ==
  \E build \in {"USE_DSP_RISCV", "scalar"}, blockSize \in 0..MaxBlock :
    \E numTaps \in TapsOf(build), pat \in Q15Patterns :
      LET pState == numTaps
          pSrc   == pState + numTaps + blockSize - 1
          pDst   == pSrc + blockSize
      IN  /\ mem = [i \in 0..(pDst + blockSize) |->
                      IF i < pState THEN Q15Word(pat, 0, i)
                      ELSE IF i < pState + numTaps - 1 THEN Q15Word(pat, 1, i - pState)
                      ELSE IF i < pSrc THEN 0
                      ELSE IF i < pDst THEN Q15Word(pat, 2, i - pSrc)
                      ELSE 77]
          /\ orig = mem
          /\ twiddleCoef = TwiddleInit
          /\ bitRevTable = riscvBitRevTable
          /\ inst = [build |-> build,
                     S |-> [numTaps |-> numTaps, pState |-> pState, pCoeffs |-> 0]]
          /\ pc = <<"ready">>
          /\ arg = <<[S |-> "S", pSrc |-> pSrc, pDst |-> pDst, blockSize |-> blockSize]>>
          /\ loc = <<FirQ15NoLocals>>
          /\ obs = <<0>>
          /\ calls = << <<>> >>
          /\ callsLeft = <<1>>

NextFirQ15 ==
  \/ \E t \in Threads : FirQ15Call(t)
  \/ \E t \in Threads : FirQ15Sample(t)
  \/ \E t \in Threads : FirQ15Copy(t)
  \/ \E t \in Threads : FirDspQuad(t)
  \/ \E t \in Threads : FirDspRest(t)
  \/ \E t \in Threads : FirDspTrap(t)
  \/ \E t \in Threads : FirDspCopy4(t)
  \/ \E t \in Threads : FirDspCopy1(t)
  \/ \E t \in Threads : FirQ15Return(t)

SpecFirQ15 == InitFirQ15 /\ [][NextFirQ15]_vars

(***************************************************************************)
(* riscv_min_q31.  The input vector, the result word and the index word    *)
(* are words of mem; arg holds pSrc, blockSize, pResult and pIndex.        *)
(***************************************************************************)
MinNoLocals == [pSrc |-> 0, blockSize |-> 0, minVal1 |-> 0, out |-> 0, blkCnt |-> 0,
                outIndex |-> 0]

\* blkCnt = (blockSize - 1u); outIndex = 0u; out = *pSrc++
\* (blockSize is at least 1 in every call made here: the subtraction does not wrap)
MinEntry(m, pSrc, blockSize) ==
  [MinNoLocals EXCEPT !.blockSize = blockSize, !.blkCnt = blockSize - 1,
                      !.outIndex = 0, !.out = m[pSrc], !.pSrc = pSrc + 1]

\* a comparison that also takes a later sample equal to the minimum so far
MinUpdatesOnEqual(out, minVal1) == out >= minVal1

\* if(out > minVal1)
MinUpdates(out, minVal1) == out > minVal1

\* one iteration of while(blkCnt > 0)
MinIterStep(l, m) ==
  LET v  == m[l.pSrc]
      l1 == [l EXCEPT !.minVal1 = v, !.pSrc = @ + 1]
      l2 == IF MinUpdates(l1.out, v)
              THEN [l1 EXCEPT !.out = v, !.outIndex = l.blockSize - l.blkCnt]
              ELSE l1
  IN  [l2 EXCEPT !.blkCnt = @ - 1]

RECURSIVE MinRun(_, _)
MinRun(l, m) ==
  IF l.blkCnt > 0 THEN CHOOSE r \in {MinRun(x, m) : x \in {MinIterStep(l, m)}} : TRUE
  ELSE l

\* the whole call: what it stores through pResult and pIndex
riscv_min_q31(m, pSrc, blockSize) ==
  LET l == MinRun(MinEntry(m, pSrc, blockSize), m)
  IN  [pResult |-> l.out, pIndex |-> l.outIndex]

MinCall(t) ==
  /\ pc[t] = "ready"
  /\ callsLeft[t] > 0
  /\ loc' = [loc EXCEPT ![t] = MinEntry(mem, arg[t].pSrc, arg[t].blockSize)]
  /\ pc' = [pc EXCEPT ![t] = "min_loop"]
  /\ calls' = [calls EXCEPT ![t] = Append(@, "riscv_min_q31")]
  /\ callsLeft' = [callsLeft EXCEPT ![t] = @ - 1]
  /\ UNCHANGED <<mem, twiddleCoef, bitRevTable, inst, arg, obs, orig>>

MinIter(t) ==
  /\ pc[t] = "min_loop"
  /\ loc[t].blkCnt > 0
  /\ loc' = [loc EXCEPT ![t] = MinIterStep(loc[t], mem)]
  /\ UNCHANGED <<mem, twiddleCoef, bitRevTable, inst, pc, arg, obs, calls, callsLeft, orig>>

\* *pResult = out; *pIndex = outIndex; and the return
MinStore(t) ==
  /\ pc[t] = "min_loop"
  /\ loc[t].blkCnt = 0
  /\ mem' = [mem EXCEPT ![arg[t].pResult] = loc[t].out, ![arg[t].pIndex] = loc[t].outIndex]
  /\ pc' = [pc EXCEPT ![t] = "ready"]
  /\ obs' = [obs EXCEPT ![t] = @ + 1]
  /\ UNCHANGED <<twiddleCoef, bitRevTable, inst, arg, loc, calls, callsLeft, orig>>

MaxMinLen == 4

MinValues == {MinInt32, -3, 0, MaxInt32}

\* a vector of 1 .. MaxMinLen words, then the result word and the index word,
\* which hold 77
InitMin ==
  \E n \in 1..MaxMinLen :
    \E v \in [0..(n - 1) -> MinValues] :
      /\ mem = [i \in 0..(n + 1) |-> IF i < n THEN v[i] ELSE 77]
      /\ orig = mem
      /\ twiddleCoef = TwiddleInit
      /\ bitRevTable = riscvBitRevTable
      /\ inst = [none |-> 0]
      /\ pc = <<"ready">>
      /\ arg = <<[pSrc |-> 0, blockSize |-> n, pResult |-> n, pIndex |-> n + 1]>>
      /\ loc = <<MinNoLocals>>
      /\ obs = <<0>>
      /\ calls = << <<>> >>
      /\ callsLeft = <<1>>

NextMin ==
  \/ \E t \in Threads : MinCall(t)
  \/ \E t \in Threads : MinIter(t)
  \/ \E t \in Threads : MinStore(t)

SpecMin == InitMin /\ [][NextMin]_vars

(***************************************************************************)
(* Properties.                                                             *)
(***************************************************************************)
\* caller t's latest call has returned
Returned(t) == pc[t] = "ready" /\ calls[t] # <<>>

\* the descriptor of caller t's latest call
CurS(t) == inst[arg[t].S]

IsButterflyStage(st) == st.name \in {"first", "middle", "last"}

\* C1: a call enters exactly one butterfly engine, the inverse engine when the
\* descriptor's ifftFlag is 1 and the forward engine otherwise; every stage the
\* call executes is a stage of that engine, and when the call has returned that
\* engine has run through its last stage.
C1_ExactlyOneEngine ==
  \A t \in Threads :
    obs[t].engines # <<>> =>
      LET want == IF CurS(t).ifftFlag = 1 THEN "inv" ELSE "fwd"
          st   == obs[t].stages
      IN  /\ obs[t].engines = <<want>>
          /\ \A i \in DOMAIN st : IsButterflyStage(st[i]) => st[i].eng = want
          /\ pc[t] \in {PcName[want][ph] : ph \in {"first", "middle", "last", "return"}}
               \cup {"ready"}
          /\ Returned(t) =>
               \E i \in DOMAIN st : st[i].name = "last" /\ st[i].eng = want /\ st[i].count > 0

\* C1 witness: after a forward call through a descriptor whose ifftFlag is neither 0
\* nor 1, an inverse call has returned, having run the inverse engine only
C1_Witness ==
  /\ Returned(1)
  /\ calls[1] = <<"cfft", "cifft">>
  /\ inst["cfft"].ifftFlag = 2
  /\ obs[1].engines = <<"inv">>
  /\ \E i \in DOMAIN obs[1].stages : obs[1].stages[i].name = "middle"

\* C2: within a call the stages run in the order first, middle ..., last; the
\* bit-reversal pass runs at most once, only after the last stage has done all its
\* fftLen/4 groups, and nothing runs after it; the call returns having run the pass
\* if and only if bitReverseFlag is 1.
C2_BitReversalLast ==
  \A t \in Threads :
    LET st == obs[t].stages
        n  == Len(st)
    IN  /\ \A i \in 1..n :
             /\ (i = 1) <=> (st[i].name = "first")
             /\ st[i].name \in {"middle", "last"} =>
                  i > 1 /\ st[i - 1].name \in {"first", "middle"}
             /\ st[i].name = "bitrev" =>
                  /\ i = n /\ i > 1 /\ pc[t] = "ready"
                  /\ st[i - 1].name = "last"
                  /\ st[i - 1].count = CurS(t).fftLen \div 4
        /\ obs[t].bitrevs = Cardinality({i \in 1..n : st[i].name = "bitrev"})
        /\ obs[t].bitrevs <= 1
        /\ Returned(t) =>
             /\ (obs[t].bitrevs = 1) <=> (CurS(t).bitReverseFlag = 1)
             /\ \E i \in 1..n : st[i].name = "last" /\ st[i].count = CurS(t).fftLen \div 4

\* C2 witness: a 64-point call has returned after first stage, one middle stage,
\* last stage and the bit-reversal pass, in this order
C2_Witness ==
  /\ Returned(1)
  /\ CurS(1).bitReverseFlag = 1
  /\ [i \in DOMAIN obs[1].stages |-> obs[1].stages[i].name]
       = <<"first", "middle", "last", "bitrev">>

(***************************************************************************)
(* Comparing Q31 words.  Within avoids computing a difference that may not *)
(* fit in 32 bits; ShlN is the 32-bit left shift by n, which wraps.        *)
(***************************************************************************)
Min(a, b) == IF a <= b THEN a ELSE b

Within(a, b, tol) ==
  LET hi == Max(a, b)
      lo == Min(a, b)
  IN  lo > MaxInt32 - tol \/ hi <= lo + tol

RECURSIVE ShlN(_, _)
ShlN(a, n) == IF n = 0 THEN a ELSE ShlN(Shl1(a), n - 1)

Log2(n) == CHOOSE k \in 0..30 : Pow2(k) = n

\* the words of caller t's buffer
BufferOf(t) == {arg[t].pSrc + i : i \in 0..((2 * CurS(t).fftLen) - 1)}

\* caller 1 has run the forward transform and then the inverse transform on its
\* result, both with the bit-reversal pass
RoundTripDone ==
  /\ Returned(1)
  /\ calls[1] = <<"cfft", "cifft">>
  /\ inst["cfft"].ifftFlag = 0
  /\ inst["cfft"].bitReverseFlag = 1

\* every input word is at most half of full scale in magnitude
HalfScaleInput == \A i \in DOMAIN orig : orig[i] >= -1073741824 /\ orig[i] <= 1073741824

\* rounding bound of the round trip of length 4^k: 32 * 8^k
RoundTripTol(N) == 32 * Pow2(3 * Log4(N))

\* C3 as stated: after forward transform, inverse transform and the left shift by
\* log2(fftLen) that undoes the two down-scalings, every word of the buffer is
\* within 2 of the original word.
C3_RoundTripWithin2 ==
  RoundTripDone =>
    \A i \in BufferOf(1) : Within(ShlN(mem[i], Log2(CurS(1).fftLen)), orig[i], 2)

\* C3 amended: for an input whose words are all within [-2^30, 2^30], forward
\* transform, inverse transform and the left shift by log2(fftLen) reproduce
\* every original word to within 32 * 8^k for fftLen = 4^k (2^11 for 16, 2^14 for
\* 64, 2^17 for 256, 2^20 for 1024): the engines drop log2(fftLen) low bits in
\* each direction.
C3_RoundTripWithinTol ==
  (RoundTripDone /\ HalfScaleInput) =>
    \A i \in BufferOf(1) :
      Within(ShlN(mem[i], Log2(CurS(1).fftLen)), orig[i], RoundTripTol(CurS(1).fftLen))

\* C3 witness: a 256-point round trip of a dense half-scale input has returned,
\* and some word differs from the original by more than 2
C3_Witness ==
  /\ RoundTripDone
  /\ HalfScaleInput
  /\ CurS(1).fftLen = 256
  /\ \A n \in 0..63 : orig[2 * n] # 0
  /\ \E i \in BufferOf(1) : ~Within(ShlN(mem[i], 8), orig[i], 2)

\* the buffer of caller 1 held the impulse (1 << 28, 0) at sample 0 and zeros elsewhere
ImpulseInput ==
  \A i \in DOMAIN orig : orig[i] = (IF i = 0 THEN 268435456 ELSE 0)

\* caller 1's only call so far, a forward transform, has returned
ForwardDone ==
  /\ Returned(1)
  /\ calls[1] = <<"cfft">>
  /\ obs[1].engines = <<"fwd">>

\* C4: the 16-point forward transform of the impulse (1 << 28, 0) at sample 0
\* leaves the same value in all 16 bins: real part 1 << 24 and imaginary part 0,
\* each to within 2 units of the last place.
C4_ImpulseFlat ==
  (ForwardDone /\ ImpulseInput /\ CurS(1).fftLen = 16) =>
    \A n \in 0..15 :
      /\ Within(mem[2 * n], 16777216, 2)
      /\ Within(mem[(2 * n) + 1], 0, 2)

\* C4 witness: the 16-point forward transform of the impulse has returned with bit
\* reversal done; one bin is exactly 1 << 24 and another is rounded below it
C4_Witness ==
  /\ ForwardDone
  /\ ImpulseInput
  /\ CurS(1).fftLen = 16
  /\ obs[1].bitrevs = 1
  /\ mem[0] = 16777216
  /\ \E n \in 1..15 : mem[2 * n] < 16777216

\* the number of middle stages caller t's engine has executed
MiddleStages(t) ==
  Cardinality({i \in DOMAIN obs[t].stages : obs[t].stages[i].name = "middle"})

\* the buffer of caller 1 held one nonzero sample, sample 0: every bin of its
\* unit-gain DFT equals that sample
ImpulseAtZero == \A i \in DOMAIN orig : i >= 2 => orig[i] = 0

\* C5: the net down-scaling of either engine is 4 bits plus 2 bits for each middle
\* stage executed, and log4(fftLen) - 2 middle stages are executed: whatever the
\* direction, the bit-reversal flag and the amplitude, every bin of the transform
\* of an impulse at sample 0 is the impulse shifted right by 2 * log4(fftLen)
\* bits (4 for 16, 6 for 64, 8 for 256, 10 for 1024), to within 2 units of the
\* last place.
C5_NetScaling ==
  (Returned(1) /\ Len(calls[1]) = 1 /\ ImpulseAtZero) =>
    LET N    == CurS(1).fftLen
        bits == 4 + (2 * MiddleStages(1))
    IN  /\ MiddleStages(1) = Log4(N) - 2
        /\ bits = 2 * Log4(N)
        /\ \A n \in 0..(N - 1) :
             /\ Within(mem[2 * n], Shr(orig[0], bits), 2)
             /\ Within(mem[(2 * n) + 1], Shr(orig[1], bits), 2)

\* C5 witness: a 256-point inverse call on the impulse (-2^30, 2^30) has
\* returned after two middle stages, with bin 0 equal to the impulse shifted
\* right by 8
C5_Witness ==
  /\ Returned(1)
  /\ calls[1] = <<"cifft">>
  /\ ImpulseAtZero
  /\ CurS(1).fftLen = 256
  /\ MiddleStages(1) = 2
  /\ orig[0] = -1073741824
  /\ mem[0] = -4194304
  /\ mem[1] = 4194304

\* the buffer after the calls cs, one after the other, each computed from the
\* descriptors and tables of the current state
RECURSIVE Replay(_, _)
Replay(cs, m) ==
  IF cs = <<>> THEN m
  ELSE CHOOSE out \in
         {Replay(Tail(cs), m1) :
            m1 \in {riscv_cfft_radix4_q31(inst[Head(cs)], m, 0, twiddleCoef,
                                          bitRevTable)}} : TRUE

\* C6: no step of a call changes a field of a descriptor or an entry of the
\* twiddle table or of the bit-reversal table (the engines quadruple a local
\* copy of the stride), so that a call through a descriptor used before computes
\* the same function of its buffer as the first call through it: when a call
\* returns, the buffer is what the calls made so far give from the original one.
C6_DescriptorUnchanged ==
  [][/\ inst' = inst
     /\ twiddleCoef' = twiddleCoef
     /\ bitRevTable' = bitRevTable
     /\ Returned(1)' => mem' = Replay(calls[1]', orig')]_vars

\* C6 witness: the second of two 64-point calls through the same descriptor has
\* returned; the engine's local stride has grown past the descriptor's
C6_Witness ==
  /\ Returned(1)
  /\ calls[1] = <<"cfft", "cfft">>
  /\ CurS(1).fftLen = 64
  /\ inst["cfft"].twidCoefModifier = 16
  /\ loc[1].twidCoefModifier > inst["cfft"].twidCoefModifier

\* the buffer of caller t as its call leaves it when no other call is in progress
AloneResult(t) ==
  riscv_cfft_radix4_q31(inst[calls[t][1]], orig, arg[t].pSrc, twiddleCoef, bitRevTable)

\* C7: with two callers that share the descriptors and the tables and work on
\* disjoint buffers, under every interleaving of their loop iterations a buffer is
\* untouched until its caller's call starts, and when the call has returned it
\* holds exactly what the call gives when it runs alone.
C7_InterleavedAsAlone ==
  \A t \in Threads :
    /\ (pc[t] = "ready" /\ calls[t] = <<>>) =>
         \A i \in BufferOf(t) : mem[i] = orig[i]
    /\ Returned(t) =>
         LET alone == AloneResult(t)
         IN  \A i \in BufferOf(t) : mem[i] = alone[i]

\* C7 witness: two 64-point calls through the same descriptor are in progress at
\* once, caller 2 in its middle stage, and caller 1's has returned
C7_Witness ==
  /\ Cardinality(Threads) = 2
  /\ CurS(1).fftLen = 64
  /\ Returned(1)
  /\ calls[1] = <<"cfft">>
  /\ arg[2].S = "cfft"
  /\ pc[2] = "fwd_middle"
  /\ loc[2].j > 1
  /\ \E i \in BufferOf(1) : mem[i] # orig[i]

\* the length of caller 1's call is 4^k with k >= 2
SupportedShape == IsPow4(CurS(1).fftLen) /\ CurS(1).fftLen >= 16

\* the stages of an engine on length N = 4^k, each with its N/4 butterflies
ExpectedStages(e, N) ==
  [i \in 1..Log4(N) |->
     [eng |-> e,
      name |-> IF i = 1 THEN "first" ELSE IF i = Log4(N) THEN "last" ELSE "middle",
      count |-> N \div 4]]

\* C8: for fftLen = 4^k, k >= 2, a call of either engine that has started
\* returns, and when it returns it has executed exactly fftLen/4 first-stage
\* butterflies, then fftLen/4 butterflies in each of log4(fftLen) - 2 middle
\* stages, then fftLen/4 last-stage groups; no stage ever exceeds fftLen/4.
C8_RunsToCompletion ==
  /\ []((SupportedShape /\ obs[1].engines # <<>>) =>
          LET N  == CurS(1).fftLen
              st == obs[1].stages
              ex == ExpectedStages(obs[1].engines[1], N)
          IN  /\ Len(st) <= Log4(N)
              /\ \A i \in DOMAIN st :
                   /\ st[i].eng = ex[i].eng /\ st[i].name = ex[i].name
                   /\ st[i].count <= N \div 4
                   /\ i < Len(st) => st[i].count = N \div 4
              /\ Returned(1) => st = ex)
  /\ (SupportedShape /\ pc[1] # "ready") ~> Returned(1)

\* C8 witness: a 64-point inverse call has returned after 16 first-stage, 16
\* middle-stage and 16 last-stage iterations
C8_Witness ==
  /\ Returned(1)
  /\ CurS(1).fftLen = 64
  /\ obs[1].stages = ExpectedStages("inv", 64)

\* the first stage of caller 1's call is complete
FirstStageDone ==
  /\ obs[1].stages # <<>>
  /\ obs[1].stages[1].count = CurS(1).fftLen \div 4

\* C9 as stated: with stride 1, no stage of either engine reads a coefficient
\* pair at index fftLen/4 or above.
C9_QuarterTableEnough ==
  (SupportedShape /\ CurS(1).twidCoefModifier = 1) =>
    obs[1].maxTw < CurS(1).fftLen \div 4

\* C9 amended: with stride 1 and fftLen = 4^k, k >= 2, no stage of either engine
\* reads a coefficient pair above index 3 * (fftLen/4 - 1), and the first stage
\* reads the pair at exactly that index: the table has to hold 3 * fftLen/4 - 2
\* pairs, and that many are enough.
C9_ThreeQuarterTable ==
  (SupportedShape /\ CurS(1).twidCoefModifier = 1) =>
    LET top == 3 * ((CurS(1).fftLen \div 4) - 1)
    IN  /\ obs[1].maxTw <= top
        /\ FirstStageDone => obs[1].maxTw = top

\* C9 witness: a 64-point call with stride 1 has returned, having read pair 45
C9_Witness ==
  /\ Returned(1)
  /\ CurS(1).fftLen = 64
  /\ CurS(1).twidCoefModifier = 1
  /\ MiddleStages(1) = 1
  /\ obs[1].maxTw = 45

\* the length of caller 1's descriptor is not a power of 4
UnsupportedShape == ~IsPow4(CurS(1).fftLen)

\* the words of memory outside the first n words of caller 1's buffer are as
\* they were before the call
UntouchedBeyond(n) ==
  \A i \in DOMAIN mem : (i < arg[1].pSrc \/ i >= arg[1].pSrc + n) => mem[i] = orig[i]

\* C10 as stated: a call with a length that is not a power of 4 returns having
\* changed nothing but the 2 * fftLen words of the caller's buffer.
C10_WritesInsideBuffer ==
  (UnsupportedShape /\ Returned(1)) =>
    /\ UntouchedBeyond(2 * CurS(1).fftLen)
    /\ obs[1].maxIdx <= (2 * CurS(1).fftLen) - 1

\* C10 amended: a call with a length fftLen >= 4 that is not a power of 4 runs its
\* stages and returns, no error signalled, but its middle stages can read and
\* write past the end of the buffer, up to 3 * (fftLen / 16) complex samples
\* (integer division): at any time the words it has touched or changed are among
\* the first 2 * (fftLen + 3 * (fftLen / 16)) from pSrc.
C10_WritesNearBuffer ==
  /\ [](UnsupportedShape =>
          LET reach == 2 * (CurS(1).fftLen + (3 * (CurS(1).fftLen \div 16)))
          IN  /\ UntouchedBeyond(reach)
              /\ obs[1].maxIdx <= reach - 1
              /\ Returned(1) =>
                   \E i \in DOMAIN obs[1].stages : obs[1].stages[i].name = "last")
  /\ (UnsupportedShape /\ pc[1] # "ready") ~> Returned(1)

\* C10 witness: a call with fftLen = 21 has returned after a middle stage that
\* went up to word 47 and changed a word after the 42 of the buffer
C10_Witness ==
  /\ Returned(1)
  /\ CurS(1).fftLen = 21
  /\ MiddleStages(1) = 1
  /\ obs[1].maxIdx = 47
  /\ \E i \in 42..47 : mem[i] # orig[i]

(***************************************************************************)
(* The exact value of a signed sum of 32-bit words, sg[i] * xs[i] summed,  *)
(* kept as a high part and a low 16-bit part so that it is never reduced:  *)
(* the sum is ExactHi * 65536 + ExactLo with 0 <= ExactLo < 65536.         *)
(***************************************************************************)
RECURSIVE LimbSum(_, _, _)
LimbSum(xs, sg, hi) ==
  IF xs = <<>> THEN 0
  ELSE (sg[1] * (IF hi THEN xs[1] \div 65536 ELSE xs[1] % 65536))
         + LimbSum(Tail(xs), Tail(sg), hi)

ExactHi(xs, sg) == LimbSum(xs, sg, TRUE) + (LimbSum(xs, sg, FALSE) \div 65536)

ExactLo(xs, sg) == LimbSum(xs, sg, FALSE) % 65536

\* the exact sum reduced modulo 2^32 into [-2^31, 2^31 - 1]
WrappedSum(xs, sg) ==
  ((((ExactHi(xs, sg) + 32768) % 65536) - 32768) * 65536) + ExactLo(xs, sg)

\* the exact sum does not fit in 32 bits
SumOverflows(xs, sg) == ExactHi(xs, sg) > 32767 \/ ExactHi(xs, sg) < -32768

\* the words at offsets 0, 2, 4, 6 (or 1, 3, 5, 7 ...) from p
Words4(m, p, d) == <<m[p], m[p + d], m[p + (2 * d)], m[p + (3 * d)]>>

\* caller 1 is about to run a last-stage group of the forward (dir = 1) or inverse
\* (dir = -1) engine; LastDir is its direction
InLastStage == pc[1] \in {"fwd_last", "inv_last"}

LastDir == IF pc[1] = "fwd_last" THEN 1 ELSE -1

InMiddleStage == pc[1] \in {"fwd_middle", "inv_middle"}

\* C11: the sums and differences that the last stage and the middle stages store
\* are the exact sums reduced modulo 2^32, never clamped: a last-stage group
\* (xa, ya, xb, yb, xc, yc, xd, yd) is replaced by the eight wrapped signed sums
\* xa' = xa + xb + xc + xd, ..., and a middle-stage butterfly stores the wrapped
\* sums xa + xb + xc + xd and ya + yb + yc + yd shifted right by 2.
C11_SumsWrap ==
  [][/\ InLastStage =>
          LET p  == loc[1].ptr1
              d  == LastDir
              X  == Words4(mem, p, 2)
              Y  == Words4(mem, p + 1, 2)
              XY == <<mem[p], mem[p + 3], mem[p + 4], mem[p + 7]>>
              YX == <<mem[p + 1], mem[p + 2], mem[p + 5], mem[p + 6]>>
          IN  /\ mem'[p] = WrappedSum(X, <<1, 1, 1, 1>>)
              /\ mem'[p + 1] = WrappedSum(Y, <<1, 1, 1, 1>>)
              /\ mem'[p + 2] = WrappedSum(X, <<1, -1, 1, -1>>)
              /\ mem'[p + 3] = WrappedSum(Y, <<1, -1, 1, -1>>)
              /\ mem'[p + 4] = WrappedSum(XY, <<1, d, -1, -d>>)
              /\ mem'[p + 5] = WrappedSum(YX, <<1, -d, -1, d>>)
              /\ mem'[p + 6] = WrappedSum(XY, <<1, -d, -1, d>>)
              /\ mem'[p + 7] = WrappedSum(YX, <<1, d, -1, -d>>)
     /\ InMiddleStage =>
          LET p == loc[1].pSi0
              d == loc[1].pSi1 - loc[1].pSi0
          IN  /\ mem'[p] = Shr(WrappedSum(Words4(mem, p, d), <<1, 1, 1, 1>>), 2)
              /\ mem'[p + 1] =
                   Shr(WrappedSum(Words4(mem, p + 1, d), <<1, 1, 1, 1>>), 2)]_vars

\* C11 witness: the forward engine has done some last-stage groups and is at a
\* group whose sum xa + xb + xc + xd does not fit in 32 bits
C11_Witness ==
  /\ pc[1] = "fwd_last"
  /\ loc[1].j < CurS(1).fftLen \div 4
  /\ SumOverflows(Words4(mem, loc[1].ptr1, 2), <<1, 1, 1, 1>>)

\* complex sample n of caller 1's buffer in memory m
Sample(m, n) == <<m[arg[1].pSrc + (2 * n)], m[arg[1].pSrc + (2 * n) + 1]>>

\* caller 1's call is at the bit-reversal pass, which is about to run
AtBitReversal == pc[1] = "bitrev_check" /\ DoBitReversal(CurS(1))

\* the pass applied to memory m with the arguments of caller 1's call
PassAgain(m) ==
  LET a == BitRevArgs(CurS(1))
  IN  riscv_bitreversal_q31(m, arg[1].pSrc, a.fftLen, a.bitRevFactor, bitRevTable,
                            a.pBitRevTab)

\* the pairs the table of caller 1's descriptor names for the pass: those the
\* descriptor's factor steps on, from the first
NamedPairs ==
  LET pairs == bitRevTable[CurS(1).pBitRevTable]
  IN  {pairs[k] : k \in {j \in 1..Len(pairs) : (j - 1) % CurS(1).bitRevFactor = 0}}

\* C12: the bit-reversal pass exchanges the two complex samples of every pair
\* its table names and leaves every other sample, and every word outside the
\* buffer, as it was; and the pass applied again to its result, with the same
\* table and factor, gives back the buffer it started from, word for word.
C12_BitReversalInvolution ==
  [][AtBitReversal =>
       LET N == CurS(1).fftLen
       IN  /\ \A p \in NamedPairs :
                /\ Sample(mem', p[1]) = Sample(mem, p[2])
                /\ Sample(mem', p[2]) = Sample(mem, p[1])
           /\ \A n \in 0..(N - 1) :
                (\A p \in NamedPairs : n # p[1] /\ n # p[2]) =>
                  Sample(mem', n) = Sample(mem, n)
           /\ \A i \in DOMAIN mem : i \notin BufferOf(1) => mem'[i] = mem[i]
           /\ PassAgain(mem') = mem]_vars

\* C12 witness: the pass has run on a 64-point buffer of pairwise different
\* samples; its table names the pair (1, 32), and the pass applied again moves
\* sample 1 to the place of sample 32
C12_Witness ==
  /\ Returned(1)
  /\ obs[1].bitrevs = 1
  /\ CurS(1).fftLen = 64
  /\ \A n, k \in 0..63 : n # k => Sample(mem, n) # Sample(mem, k)
  /\ <<1, 32>> \in NamedPairs
  /\ Sample(PassAgain(mem), 32) = Sample(mem, 1)

\* caller 1 has run the inverse transform twice, both times with bit reversal,
\* on a buffer of words within [-2^30, 2^30]
InverseTwiceDone ==
  /\ Returned(1)
  /\ calls[1] = <<"cifft", "cifft">>
  /\ CurS(1).bitReverseFlag = 1
  /\ HalfScaleInput

\* the forward transform of the descriptor cfft applied once, and twice, to the
\* original buffer
ForwardOnce == Replay(<<"cfft">>, orig)

ForwardTwice == Replay(<<"cfft", "cfft">>, orig)

\* rounding bound of two transforms in a row of length 4^k: 32 * 2^k
TwiceTol(N) == 32 * Pow2(Log4(N))

\* C13 as stated: the inverse transform applied twice gives what the forward
\* transform (applied once) gives, to within the rounding bound, be it at the
\* scale of one transform or shifted down to the scale of two.
C13_InverseTwiceIsForward ==
  InverseTwiceDone =>
    LET f == ForwardOnce
        N == CurS(1).fftLen
    IN  \/ \A i \in BufferOf(1) : Within(mem[i], f[i], 2 * TwiceTol(N))
        \/ \A i \in BufferOf(1) : Within(mem[i], Shr(f[i], Log2(N)), 2 * TwiceTol(N))

\* C13 amended: for a buffer of words within [-2^30, 2^30] and transforms with
\* bit reversal, the inverse transform applied twice gives what the forward
\* transform applied twice gives, to within 64 * 2^k for fftLen = 4^k: both give
\* the buffer in reversed sample order (sample n from sample (fftLen - n) mod
\* fftLen) shifted right by log2(fftLen), to within 32 * 2^k.
C13_InverseTwiceIsForwardTwice ==
  InverseTwiceDone =>
    LET ff == ForwardTwice
        N  == CurS(1).fftLen
    IN  /\ \A i \in BufferOf(1) : Within(mem[i], ff[i], 2 * TwiceTol(N))
        /\ \A n \in 0..(N - 1), c \in 0..1 :
             Within(mem[(2 * n) + c],
                    Shr(orig[(2 * ((N - n) % N)) + c], Log2(N)), TwiceTol(N))

\* C13 witness: two 64-point inverse transforms of the impulse (-2^30, 2^30) at
\* sample 1 have returned; the impulse is at sample 63, 6 bits down, and far from
\* the forward transform of the buffer
C13_Witness ==
  /\ InverseTwiceDone
  /\ CurS(1).fftLen = 64
  /\ orig[2] = -1073741824
  /\ Within(mem[126], -16777216, 64)
  /\ Within(mem[2], 0, 64)
  /\ ~Within(mem[2], ForwardOnce[2], 1000000)

Abs(a) == IF a < 0 THEN -a ELSE a

\* the transform of caller 1's call applied to the buffer at word offset p of the
\* original memory
TransformAt(p) ==
  riscv_cfft_radix4_q31(inst[calls[1][1]], orig, p, twiddleCoef, bitRevTable)

\* the original buffer is a * x + b * y, word by word
IsCombination(a, b) ==
  LET N == CurS(1).fftLen
  IN  \A i \in 0..((2 * N) - 1) :
        orig[i] = (a * orig[(2 * N) + i]) + (b * orig[(4 * N) + i])

\* rounding bound of one transform of length 4^k: 32 * 2^k
OnceTol(N) == 32 * Pow2(Log4(N))

\* C14: the transform of a * x + b * y is a * transform(x) + b * transform(y),
\* word by word and at the same scale, to within the rounding of the three
\* transforms: (1 + |a| + |b|) * 32 * 2^k for fftLen = 4^k; either direction,
\* with or without bit reversal.
C14_Linear ==
  Returned(1) =>
    LET N == CurS(1).fftLen
        X == TransformAt(2 * N)
        Y == TransformAt(4 * N)
    IN  \A a \in LinScalars, b \in LinScalars :
          IsCombination(a, b) =>
            \A i \in 0..((2 * N) - 1) :
              Within(mem[i], (a * X[(2 * N) + i]) + (b * Y[(4 * N) + i]),
                     (1 + Abs(a) + Abs(b)) * OnceTol(N))

\* C14 witness: the 64-point forward transform of 3 * x - 2 * y, x and y dense,
\* has returned with a word that is far from 3 * transform(x)
C14_Witness ==
  /\ Returned(1)
  /\ calls[1] = <<"cfft">>
  /\ CurS(1).fftLen = 64
  /\ IsCombination(3, -2)
  /\ \A n \in 0..63 : orig[256 + (2 * n)] # 0
  /\ \E i \in 0..127 : ~Within(mem[i], 3 * TransformAt(128)[128 + i], 100000)

\* cos(2 * pi * i / 1024) and sin(2 * pi * i / 1024) in Q31, i in 0 .. 1023; the last
\* quarter turn is read from the first: cos(t) = sin(t - 3pi/2), sin(t) = -cos(t - 3pi/2)
RefCos(i) ==
  IF i < 3 * (TableLen \div 4) THEN twiddleCoef_q31[(2 * i) + 1]
  ELSE twiddleCoef_q31[(2 * (i - (3 * (TableLen \div 4)))) + 2]

RefSin(i) ==
  IF i < 3 * (TableLen \div 4) THEN twiddleCoef_q31[(2 * i) + 2]
  ELSE -twiddleCoef_q31[(2 * (i - (3 * (TableLen \div 4)))) + 1]

\* half of term n of bin k of the N-point discrete Fourier transform of buffer m,
\* x[n] * exp(-2 pi j n k / N): its real part (c = 0) or imaginary part (c = 1)
DftTerm(m, N, k, n, c) ==
  LET i == ((n * k) % N) * (TableLen \div N)
      xr == m[2 * n]
      xi == m[(2 * n) + 1]
  IN  IF c = 0 THEN MulHi(xr, RefCos(i)) + MulHi(xi, RefSin(i))
      ELSE MulHi(xi, RefCos(i)) - MulHi(xr, RefSin(i))

RECURSIVE DftSum(_, _, _, _, _)
\* the sum of the first cnt half terms
DftSum(m, N, k, cnt, c) ==
  IF cnt = 0 THEN 0
  ELSE DftSum(m, N, k, cnt - 1, c) + DftTerm(m, N, k, cnt - 1, c)

\* component c of bin k of the N-point transform of m, divided by 2^sh
DftBin(m, N, k, c, sh) == (2 * DftSum(m, N, k, N, c)) \div Pow2(sh)

\* the bin held at sample position p when the call returns: p itself after the
\* bit-reversal pass, else p with its log2(N) bits reversed
BinAt(p) ==
  IF DoBitReversal(CurS(1)) THEN p ELSE RevBits(p, Log2(CurS(1).fftLen))

\* the buffer holds the transform of the original buffer divided by 2^sh
IsScaledDft(sh) ==
  LET N == CurS(1).fftLen
  IN  \A p \in 0..(N - 1), c \in 0..1 :
        Within(mem[(2 * p) + c], DftBin(orig, N, BinAt(p), c, sh), OnceTol(N) + 8)

MaxScaleBits == 2 * (MaxLog4 + 1)

\* C15 as stated: a forward call of any length 4^k, k >= 1, leaves the discrete
\* Fourier transform of the input divided by some power of two, in bit-reversed
\* order when the bit-reversal pass is off.
C15_ForwardIsDft ==
  ForwardDone => \E sh \in 0..MaxScaleBits : IsScaledDft(sh)

\* C15: a forward call of length N = 4^k, k >= 2, leaves the discrete Fourier
\* transform of the input divided by N, each word to within 32 * 2^k + 8, in
\* bit-reversed order when the bit-reversal pass is off; a call of length 4 runs the
\* 4-point butterfly twice, once in the first and once in the last stage, and the
\* impulse (1 << 20, 0) at sample 0 comes out as 262138 in bin 0 and 2 in the other
\* bins, which is its transform at no scale.
C15_ForwardIsDftFrom16 ==
  ForwardDone =>
    /\ CurS(1).fftLen >= 16 => IsScaledDft(Log2(CurS(1).fftLen))
    /\ CurS(1).fftLen = 4 =>
         /\ obs[1].stages[1].name = "first" /\ obs[1].stages[1].count = 1
         /\ obs[1].stages[2].name = "last" /\ obs[1].stages[2].count = 1
         /\ orig[0] = 1048576 =>
              /\ mem[0] = 262138
              /\ \A sh \in 0..MaxScaleBits : ~IsScaledDft(sh)

\* C15 witness: the 64-point forward transform of an impulse at sample 1 has
\* returned without bit reversal, and bin 1, held at position 32, is not real
C15_Witness ==
  /\ ForwardDone
  /\ CurS(1).fftLen = 64
  /\ ~DoBitReversal(CurS(1))
  /\ orig[2] = -1048576
  /\ orig[0] = 0
  /\ mem[65] # 0
  /\ IsScaledDft(6)

\* the words of mem that hold the data of the destination matrix
MatDstWords == {i \in DOMAIN mem : i >= inst.Dst.pData}

\* C16: riscv_mat_mult_q31 writes nothing when A.numCols # B.numRows or
\* A.numRows # Dst.numRows or B.numCols # Dst.numCols, and returns
\* RISCV_MATH_SIZE_MISMATCH in exactly that case and RISCV_MATH_SUCCESS in every
\* other; it returns one of the two.
C16_StatusFromSizes ==
  LET bad == \/ inst.A.numCols # inst.B.numRows
             \/ inst.A.numRows # inst.Dst.numRows
             \/ inst.B.numCols # inst.Dst.numCols
  IN  /\ bad => mem = orig
      /\ obs[1] # <<>> =>
           /\ obs[1] = <<IF bad THEN "RISCV_MATH_SIZE_MISMATCH"
                           ELSE "RISCV_MATH_SUCCESS">>
           /\ ~bad => \A r \in 0..(inst.Dst.numRows - 1), c \in 0..(inst.Dst.numCols - 1) :
                        mem[inst.Dst.pData + (r * inst.Dst.numCols) + c] =
                          riscv_mat_mult_q31(inst.A, inst.B, inst.Dst, orig).mem[
                            inst.Dst.pData + (r * inst.Dst.numCols) + c]

\* C16 witness: a call whose only mismatch is between the column counts of B and
\* Dst has returned RISCV_MATH_SIZE_MISMATCH with the destination untouched
C16_Witness ==
  /\ obs[1] = <<"RISCV_MATH_SIZE_MISMATCH">>
  /\ inst.A.numCols = inst.B.numRows
  /\ inst.A.numRows = inst.Dst.numRows
  /\ inst.B.numCols # inst.Dst.numCols
  /\ \A i \in MatDstWords : mem[i] = 77

RECURSIVE SeqSum(_)
SeqSum(q) == IF q = <<>> THEN 0 ELSE Head(q) + SeqSum(Tail(q))

\* the samples handed over by the calls so far, and all the samples
FirConsumed == SeqSum(calls[1])

FirTotal == FirConsumed + callsLeft[1]

\* where the caller's input and output start
FirSrcBase == inst.S.pState + FirTotal + inst.S.phaseLength - 1

FirDstBase == FirSrcBase + FirTotal

\* sample n of the history: phaseLength - 1 zeros, then the input
FirHistory(n) ==
  IF n < inst.S.phaseLength - 1 THEN 0
  ELSE orig[FirSrcBase + (n - (inst.S.phaseLength - 1))]

RECURSIVE FirRefSum(_, _, _)
\* the first cnt terms of output q of input sample n:
\* b[L - 1 - q + t * L] * history[n + t], t = 0 .. phaseLength - 1
FirRefSum(n, q, cnt) ==
  IF cnt = 0 THEN Zero64
  ELSE Add64(FirRefSum(n, q, cnt - 1),
             Mul64(FirHistory(n + (cnt - 1)),
                   orig[inst.S.pCoeffs + (inst.S.L - 1 - q) + ((cnt - 1) * inst.S.L)]))

\* C17: between calls, whatever the split of the input into blocks, (a) the
\* outputs written so far are those of one call on the whole input, and are the
\* polyphase sums over the history of zeros followed by the input; (b) the first
\* phaseLength - 1 state entries hold the last phaseLength - 1 samples of the
\* history; and in every state (c) the coefficients are as they were.
C17_BlocksAsOneCall ==
  /\ \A i \in 0..((inst.S.L * inst.S.phaseLength) - 1) :
       mem[inst.S.pCoeffs + i] = orig[inst.S.pCoeffs + i]
  /\ (pc[1] = "ready" /\ calls[1] # <<>>) =>
       LET whole == riscv_fir_interpolate_q31(inst.S, orig, FirSrcBase, FirDstBase, FirTotal)
       IN  /\ \A n \in 0..(FirConsumed - 1), q \in 0..(inst.S.L - 1) :
                /\ mem[FirDstBase + (n * inst.S.L) + q] =
                     whole[FirDstBase + (n * inst.S.L) + q]
                /\ mem[FirDstBase + (n * inst.S.L) + q] =
                     TruncShr31(FirRefSum(n, q, inst.S.phaseLength))
           /\ \A j \in 0..(inst.S.phaseLength - 2) :
                mem[inst.S.pState + j] = FirHistory(FirConsumed + j)
           /\ callsLeft[1] = 0 =>
                \A j \in 0..(inst.S.phaseLength - 2) :
                  mem[inst.S.pState + j] = whole[inst.S.pState + j]

\* C17 witness: three samples were handed over in blocks of 1 and 2 to a filter
\* with L = 2 and phaseLength = 3; both calls have returned and the state holds
\* the last two samples
C17_Witness ==
  /\ pc[1] = "ready"
  /\ calls[1] = <<1, 2>>
  /\ obs[1] = 2
  /\ inst.S.L = 2
  /\ inst.S.phaseLength = 3
  /\ mem[inst.S.pState] = orig[FirSrcBase + 1]
  /\ mem[inst.S.pState + 1] = orig[FirSrcBase + 2]
  /\ mem[inst.S.pState] # mem[inst.S.pState + 1]
  /\ mem[FirDstBase + 5] # 77

\* sample k of the previous state followed by the input block
Q15History(k) ==
  IF k < inst.S.numTaps - 1 THEN orig[inst.S.pState + k]
  ELSE orig[arg[1].pSrc + (k - (inst.S.numTaps - 1))]

\* the first numTaps - 1 state words hold the last numTaps - 1 samples of the
\* previous state followed by the input block
Q15StateReady ==
  \A j \in 0..(inst.S.numTaps - 2) :
    mem[inst.S.pState + j] = Q15History(arg[1].blockSize + j)

\* C18: when riscv_fir_q15 has returned, in either build, the first numTaps - 1
\* entries of the state buffer hold the last numTaps - 1 samples of the previous
\* state followed by the input block.
C18_StateReady ==
  (pc[1] = "ready" /\ obs[1] = 1) => Q15StateReady

\* the part of C18 that the code has: the build without USE_DSP_RISCV, and the
\* build with it for filters of fewer than 5 taps, whose copy of the state is done
\* one sample at a time
C18_StateReadyCopiedOneByOne ==
  (pc[1] = "ready" /\ obs[1] = 1
     /\ (inst.build = "scalar" \/ inst.S.numTaps - 1 < 4)) => Q15StateReady

\* with USE_DSP_RISCV, 6 taps and a block of 4, the call has returned and the two
\* pairs the copy loop wrote are both the pair at pState
C18_Witness ==
  /\ pc[1] = "ready" /\ obs[1] = 1
  /\ inst.build = "USE_DSP_RISCV"
  /\ inst.S.numTaps = 6
  /\ arg[1].blockSize = 4
  /\ mem[inst.S.pState + 2] = mem[inst.S.pState]
  /\ mem[inst.S.pState + 3] = mem[inst.S.pState + 1]
  /\ mem[inst.S.pState + 2] # Q15History(6)

\* C19: when riscv_min_q31 has returned on blockSize >= 1 samples, *pResult is
\* the minimum of pSrc[0 .. blockSize - 1] and *pIndex is the index of its first
\* occurrence; the samples are left as they were.
C19_MinAndFirstIndex ==
  (pc[1] = "ready" /\ obs[1] = 1) =>
    LET n   == arg[1].blockSize
        res == mem[arg[1].pResult]
        idx == mem[arg[1].pIndex]
    IN  /\ idx \in 0..(n - 1)
        /\ orig[arg[1].pSrc + idx] = res
        /\ \A i \in 0..(n - 1) : orig[arg[1].pSrc + i] >= res
        /\ \A i \in 0..(idx - 1) : orig[arg[1].pSrc + i] > res
        /\ \A i \in 0..(n - 1) : mem[arg[1].pSrc + i] = orig[arg[1].pSrc + i]
        /\ riscv_min_q31(orig, arg[1].pSrc, n) = [pResult |-> res, pIndex |-> idx]

\* C19 witness: the minimum of four samples occurs at indices 1 and 3, and the
\* call has returned index 1
C19_Witness ==
  /\ pc[1] = "ready" /\ obs[1] = 1
  /\ arg[1].blockSize = 4
  /\ orig[1] = MinInt32 /\ orig[3] = MinInt32 /\ orig[0] = 0
  /\ mem[arg[1].pResult] = MinInt32
  /\ mem[arg[1].pIndex] = 1

InFirstStage == pc[1] \in {"fwd_first", "inv_first"}

\* the first-stage butterflies caller 1's call has done
FirstDone == obs[1].stages[1].count

\* component c of input k of first-stage butterfly i: sample i + k * fftLen/4
FirstInput(i, k, c) == mem[arg[1].pSrc + (2 * (i + (k * (CurS(1).fftLen \div 4)))) + c]

\* C20: in the first stage of either engine, butterfly i, i = 0 .. N/4 - 1, reads
\* and writes complex samples i, i + N/4, i + N/2 and i + 3N/4 and nothing else;
\* it leaves in sample i, for the real and for the imaginary part, the sum of the
\* four inputs each shifted right by 4 bits (rounded down) before the addition;
\* and butterfly 0, whose twiddles are 1, leaves in sample N/4 the sum of inputs 0
\* and 2 minus that of inputs 1 and 3, all shifted first, to within 2.
C20_FirstStageInputs ==
  [][InFirstStage =>
       LET q == CurS(1).fftLen \div 4
           i == FirstDone
           p == arg[1].pSrc
           touched == {p + (2 * (i + (k * q))) + c : k \in 0..3, c \in 0..1}
       IN  /\ i \in 0..(q - 1)
           /\ loc[1].pSi0 = p + (2 * i)
           /\ loc[1].pSi1 = p + (2 * (i + q))
           /\ loc[1].pSi2 = p + (2 * (i + (2 * q)))
           /\ loc[1].pSi3 = p + (2 * (i + (3 * q)))
           /\ \A c \in 0..1 :
                mem'[p + (2 * i) + c] =
                  (FirstInput(i, 0, c) \div 16) + (FirstInput(i, 1, c) \div 16)
                  + (FirstInput(i, 2, c) \div 16) + (FirstInput(i, 3, c) \div 16)
           /\ i = 0 =>
                \A c \in 0..1 :
                  Within(mem'[p + (2 * q) + c],
                         ((FirstInput(0, 0, c) \div 16) + (FirstInput(0, 2, c) \div 16))
                         - ((FirstInput(0, 1, c) \div 16) + (FirstInput(0, 3, c) \div 16)),
                         2)
           /\ \A x \in DOMAIN mem : x \notin touched => mem'[x] = mem[x]]_vars

\* C20 witness: butterfly 0 of a forward first stage has run on four samples whose
\* parts are lost whole by the shift, so that the sum of the shifted inputs, 0, is
\* not the shifted sum
C20_Witness ==
  /\ pc[1] = "fwd_first"
  /\ FirstDone = 1
  /\ \A k \in 0..3 : orig[2 * (k * (CurS(1).fftLen \div 4))] = 8
  /\ mem[0] = 0
  /\ (orig[0] * 4) \div 16 = 2

\* the coefficient pair (cosine, sine) at index n of the table caller 1's call reads
TwidPair(n) ==
  <<twiddleCoef[CurS(1).pTwiddle + (2 * n)], twiddleCoef[CurS(1).pTwiddle + (2 * n) + 1]>>

\* ((q63_t) a * b) >> 32, from the exact 64-bit product
Hi(a, b) == Mul64(a, b).h

\* component c of input k of first-stage butterfly i in memory m, shifted right by 4
FirstShifted(m, i, k, c) ==
  m[arg[1].pSrc + (2 * (i + (k * (CurS(1).fftLen \div 4)))) + c] \div 16

\* the terms (r, s) of a radix-4 butterfly on the four complex inputs x[0..3] (real
\* parts) and y[0..3] (imaginary parts) that go to its outputs 1, 2 and 3 (in the
\* order of the samples they are stored to); dir is 1 in the forward engine and -1 in
\* the inverse engine
ButterflyTerms(x, y, k, dir) ==
  CASE k = 1 -> <<(x[0] + x[2]) - (x[1] + x[3]), (y[0] + y[2]) - (y[1] + y[3])>>
    [] k = 2 -> <<(x[0] - x[2]) + (dir * (y[1] - y[3])), (y[0] - y[2]) - (dir * (x[1] - x[3]))>>
    [] k = 3 -> <<(x[0] - x[2]) - (dir * (y[1] - y[3])), (y[0] - y[2]) + (dir * (x[1] - x[3]))>>

\* the terms of first-stage butterfly i on memory m
FirstTerms(m, i, k, dir) ==
  ButterflyTerms([n \in 0..3 |-> FirstShifted(m, i, n, 0)],
                 [n \in 0..3 |-> FirstShifted(m, i, n, 1)], k, dir)

\* the multiple of i * M at which the output stored to sample i + k * N/4 reads its pair
PairMultiple(k) == CASE k = 1 -> 2 [] k = 2 -> 1 [] k = 3 -> 3

\* C21: first-stage butterfly i of the forward engine, with the descriptor's stride M,
\* has its index ia1 at i * M; the sample at i + N/4 receives the term twiddled with
\* the pair at 2 * i * M, the sample at i + N/2 the term twiddled with the pair at
\* i * M, the sample at i + 3N/4 the term twiddled with the pair at 3 * i * M; each
\* stored real part is ((r * co) >> 32 + (s * si) >> 32) << 1 and each imaginary part
\* ((s * co) >> 32 - (r * si) >> 32) << 1, every product truncated on its own.
C21_FirstStageTwiddles ==
  [][pc[1] = "fwd_first" =>
       LET q == CurS(1).fftLen \div 4
           i == FirstDone
           M == CurS(1).twidCoefModifier
       IN  /\ loc[1].ia1 = i * M
           /\ \A k \in 1..3 :
                LET t  == FirstTerms(mem, i, k, 1)
                    w  == TwidPair(PairMultiple(k) * i * M)
                    at == arg[1].pSrc + (2 * (i + (k * q)))
                IN  /\ mem'[at] = 2 * (Hi(t[1], w[1]) + Hi(t[2], w[2]))
                    /\ mem'[at + 1] = 2 * (Hi(t[2], w[1]) - Hi(t[1], w[2]))]_vars

\* the real part that first-stage output k of butterfly i would have if the two
\* 64-bit products were added before the truncation
JointTruncation(m, i, k) ==
  LET t == FirstTerms(m, i, k, 1)
      w == TwidPair(PairMultiple(k) * i * CurS(1).twidCoefModifier)
  IN  2 * Add64(Mul64(t[1], w[1]), Mul64(t[2], w[2])).h

\* C21 witness: the forward engine has run butterfly 1 of its first stage through a
\* stride above 1, and the real part it left in sample 1 + N/4 is the one of the two
\* products truncated separately, which is not the one of their truncated sum
C21_Witness ==
  /\ pc[1] = "fwd_first"
  /\ FirstDone = 2
  /\ CurS(1).twidCoefModifier > 1
  /\ LET t  == FirstTerms(orig, 1, 1, 1)
         w  == TwidPair(2 * CurS(1).twidCoefModifier)
         at == arg[1].pSrc + (2 * (1 + (CurS(1).fftLen \div 4)))
     IN  /\ mem[at] = 2 * (Hi(t[1], w[1]) + Hi(t[2], w[2]))
         /\ mem[at] # JointTruncation(orig, 1, 1)

\* ButterflyTerms on 32-bit words: every sum and difference reduced modulo 2^32
WrappedTerms(x, y, k, dir) ==
  LET dx02 == Sub32(x[0], x[2])
      dy02 == Sub32(y[0], y[2])
      dx13 == Sub32(x[1], x[3])
      dy13 == Sub32(y[1], y[3])
  IN  CASE k = 1 -> <<Sub32(Add32(x[0], x[2]), Add32(x[1], x[3])),
                      Sub32(Add32(y[0], y[2]), Add32(y[1], y[3]))>>
        [] k = 2 -> IF dir = 1 THEN <<Add32(dx02, dy13), Sub32(dy02, dx13)>>
                               ELSE <<Sub32(dx02, dy13), Add32(dy02, dx13)>>
        [] k = 3 -> IF dir = 1 THEN <<Sub32(dx02, dy13), Add32(dy02, dx13)>>
                               ELSE <<Add32(dx02, dy13), Sub32(dy02, dx13)>>

\* the four cursors of caller 1's engine
Cursors == <<loc[1].pSi0, loc[1].pSi1, loc[1].pSi2, loc[1].pSi3>>

\* the coefficient pair the engine holds for its output k
LoadedPair(k) ==
  CASE k = 1 -> <<loc[1].co2, loc[1].si2>>
    [] k = 2 -> <<loc[1].co1, loc[1].si1>>
    [] k = 3 -> <<loc[1].co3, loc[1].si3>>

\* C22: a middle-stage butterfly of either engine stores eight words and changes no
\* other: at its first cursor the sum of the four inputs (modulo 2^32) shifted right
\* by 2, real and imaginary; at each of the other three cursors the sum or difference
\* of two 64-bit products, each truncated by >> 32, shifted right by 1.
C22_MiddleStageScaling ==
  [][InMiddleStage =>
       LET dir == IF pc[1] = "fwd_middle" THEN 1 ELSE -1
           x == [n \in 0..3 |-> mem[Cursors[n + 1]]]
           y == [n \in 0..3 |-> mem[Cursors[n + 1] + 1]]
       IN  /\ mem'[Cursors[1]] = Add32(Add32(x[0], x[2]), Add32(x[1], x[3])) \div 4
           /\ mem'[Cursors[1] + 1] = Add32(Add32(y[0], y[2]), Add32(y[1], y[3])) \div 4
           /\ \A k \in 1..3 :
                LET t == WrappedTerms(x, y, k, dir)
                    w == LoadedPair(k)
                    a == Hi(t[1], w[1])
                    b == Hi(t[2], w[2])
                    c == Hi(t[2], w[1])
                    d == Hi(t[1], w[2])
                IN  /\ mem'[Cursors[k + 1]] =
                         (IF dir = 1 THEN Add32(a, b) ELSE Sub32(a, b)) \div 2
                    /\ mem'[Cursors[k + 1] + 1] =
                         (IF dir = 1 THEN Sub32(c, d) ELSE Add32(c, d)) \div 2
           /\ \A i \in DOMAIN mem :
                i \notin {Cursors[n] + c : n \in 1..4, c \in 0..1} => mem'[i] = mem[i]]_vars

\* C22 witness: with a table of arbitrary words, the inverse engine has run the first
\* butterfly of a middle stage, which left nonzero words at its four cursors
C22_Witness ==
  /\ pc[1] = "inv_middle"
  /\ twiddleCoef = ScrambledTable
  /\ obs[1].stages[Len(obs[1].stages)].count = 1
  /\ \A n \in 0..3 : mem[arg[1].pSrc + (2 * n * loc[1].n2)] # 0

\* the butterflies caller 1's call has done in the stage it is in
StageDone == obs[1].stages[Len(obs[1].stages)].count

\* C23: in the s-th middle stage of a length-N transform of either engine with the
\* descriptor's stride M, before each butterfly, c butterflies of the stage being
\* done: n1 = N/4^s, n2 = N/4^(s+1), the stride is M * 4^s; j is c divided by the
\* 4^s repetitions, lies in 0 .. n2-1, and the three pairs held are those at
\* j * M * 4^s, twice and three times that index, read once for this j (ia1 stands
\* one stride further); i0 = j + (c mod 4^s) * n1 < N, the cursors stand at samples
\* i0, i0 + n2, i0 + 2*n2, i0 + 3*n2, and the butterfly changes these samples only.
C23_MiddleStageLoops ==
  [][InMiddleStage =>
       LET N  == CurS(1).fftLen
           M  == CurS(1).twidCoefModifier
           s  == MiddleStages(1)
           c  == StageDone
           reps == Pow2(2 * s)
           n1 == N \div reps
           n2 == n1 \div 4
           stride == M * reps
           j  == c \div reps
           i0 == j + ((c % reps) * n1)
       IN  /\ s >= 1
           /\ loc[1].n1 = n1
           /\ loc[1].n2 = n2
           /\ loc[1].twidCoefModifier = stride
           /\ j \in 0..(n2 - 1)
           /\ loc[1].j = j
           /\ loc[1].ia1 = (j + 1) * stride
           /\ \A k \in 1..3 : LoadedPair(k) = TwidPair(PairMultiple(k) * j * stride)
           /\ i0 < N
           /\ loc[1].i0 = i0
           /\ \A k \in 0..3 : Cursors[k + 1] = arg[1].pSrc + (2 * (i0 + (k * n2)))
           /\ \A n \in 0..(N - 1) :
                n \notin {i0 + (k * n2) : k \in 0..3} => Sample(mem', n) = Sample(mem, n)]_vars

\* C23 witness: in the middle stage of a 64-point transform read through stride 16,
\* 14 butterflies are done: the next one is repetition 2 of j = 3, at sample 35,
\* with the pairs at 192, 384 and 576
C23_Witness ==
  /\ InMiddleStage
  /\ CurS(1).fftLen = 64
  /\ CurS(1).twidCoefModifier = 16
  /\ StageDone = 14
  /\ loc[1].j = 3
  /\ loc[1].i0 = 35
  /\ loc[1].co3 = twiddleCoef[2 * 576]

\* C24: a last-stage step of the forward engine, g groups being done, works on the
\* four consecutive complex samples 4g .. 4g+3, (xa, ya) .. (xd, yd), and replaces
\* them, in this order, by (xa+xb+xc+xd, ya+yb+yc+yd), (xa-xb+xc-xd, ya-yb+yc-yd),
\* (xa+yb-xc-yd, ya-xb-yc+xd), (xa-yb-xc+yd, ya+xb-yc-xd): sums modulo 2^32 of the
\* values the group held before the step, unshifted, whatever the table holds; no
\* other sample changes.
C24_LastStageGroup ==
  [][pc[1] = "fwd_last" =>
       LET g == StageDone
           a == Sample(mem, 4 * g)
           b == Sample(mem, (4 * g) + 1)
           c == Sample(mem, (4 * g) + 2)
           d == Sample(mem, (4 * g) + 3)
       IN  /\ loc[1].ptr1 = arg[1].pSrc + (8 * g)
           /\ g < CurS(1).fftLen \div 4
           /\ Sample(mem', 4 * g) =
                <<WrappedSum(<<a[1], b[1], c[1], d[1]>>, <<1, 1, 1, 1>>),
                  WrappedSum(<<a[2], b[2], c[2], d[2]>>, <<1, 1, 1, 1>>)>>
           /\ Sample(mem', (4 * g) + 1) =
                <<WrappedSum(<<a[1], b[1], c[1], d[1]>>, <<1, -1, 1, -1>>),
                  WrappedSum(<<a[2], b[2], c[2], d[2]>>, <<1, -1, 1, -1>>)>>
           /\ Sample(mem', (4 * g) + 2) =
                <<WrappedSum(<<a[1], b[2], c[1], d[2]>>, <<1, 1, -1, -1>>),
                  WrappedSum(<<a[2], b[1], c[2], d[1]>>, <<1, -1, -1, 1>>)>>
           /\ Sample(mem', (4 * g) + 3) =
                <<WrappedSum(<<a[1], b[2], c[1], d[2]>>, <<1, -1, -1, 1>>),
                  WrappedSum(<<a[2], b[1], c[2], d[1]>>, <<1, 1, -1, -1>>)>>
           /\ \A i \in DOMAIN mem :
                (i < loc[1].ptr1 \/ i > loc[1].ptr1 + 7) => mem'[i] = mem[i]]_vars

\* C24 witness: the forward engine, reading a table of arbitrary words, has replaced
\* group 0 by four different samples and is at group 1, which holds four different
\* nonzero samples
C24_Witness ==
  /\ pc[1] = "fwd_last"
  /\ twiddleCoef = ScrambledTable
  /\ StageDone = 1
  /\ \A m \in 0..7, n \in 0..7 :
       m # n => /\ Sample(mem, m) # Sample(mem, n)
                /\ Sample(mem, m) # <<0, 0>>

\* One step of the inverse engine described from the forward engine: the same
\* inputs, shifts and coefficient pairs, each twiddled real part the difference
\* (r * co) >> 32 - (s * si) >> 32 and each imaginary part the sum
\* (s * co) >> 32 + (r * si) >> 32 of the products the forward engine adds and
\* subtracts; d = 1 takes the terms r, s and the last-stage sums as the forward
\* engine forms them, d = -1 takes them with the differences yb - yd and xb - xd
\* entering with the opposite sign.
InverseStepFromForward(d) ==
  /\ pc[1] = "inv_first" =>
       LET q == CurS(1).fftLen \div 4
           i == FirstDone
           M == CurS(1).twidCoefModifier
       IN  /\ \A c \in 0..1 :
                mem'[arg[1].pSrc + (2 * i) + c] =
                  FirstShifted(mem, i, 0, c) + FirstShifted(mem, i, 1, c)
                  + FirstShifted(mem, i, 2, c) + FirstShifted(mem, i, 3, c)
           /\ \A k \in 1..3 :
                LET t  == FirstTerms(mem, i, k, d)
                    w  == TwidPair(PairMultiple(k) * i * M)
                    at == arg[1].pSrc + (2 * (i + (k * q)))
                IN  /\ mem'[at] = 2 * (Hi(t[1], w[1]) - Hi(t[2], w[2]))
                    /\ mem'[at + 1] = 2 * (Hi(t[2], w[1]) + Hi(t[1], w[2]))
  /\ pc[1] = "inv_middle" =>
       LET x == [n \in 0..3 |-> mem[Cursors[n + 1]]]
           y == [n \in 0..3 |-> mem[Cursors[n + 1] + 1]]
       IN  /\ mem'[Cursors[1]] = Add32(Add32(x[0], x[2]), Add32(x[1], x[3])) \div 4
           /\ mem'[Cursors[1] + 1] = Add32(Add32(y[0], y[2]), Add32(y[1], y[3])) \div 4
           /\ \A k \in 1..3 :
                LET t == WrappedTerms(x, y, k, d)
                    w == LoadedPair(k)
                IN  /\ mem'[Cursors[k + 1]] = Sub32(Hi(t[1], w[1]), Hi(t[2], w[2])) \div 2
                    /\ mem'[Cursors[k + 1] + 1] =
                         Add32(Hi(t[2], w[1]), Hi(t[1], w[2])) \div 2
  /\ pc[1] = "inv_last" =>
       LET g == StageDone
           a == Sample(mem, 4 * g)
           b == Sample(mem, (4 * g) + 1)
           c == Sample(mem, (4 * g) + 2)
           e == Sample(mem, (4 * g) + 3)
       IN  /\ Sample(mem', 4 * g) =
                <<WrappedSum(<<a[1], b[1], c[1], e[1]>>, <<1, 1, 1, 1>>),
                  WrappedSum(<<a[2], b[2], c[2], e[2]>>, <<1, 1, 1, 1>>)>>
           /\ Sample(mem', (4 * g) + 1) =
                <<WrappedSum(<<a[1], b[1], c[1], e[1]>>, <<1, -1, 1, -1>>),
                  WrappedSum(<<a[2], b[2], c[2], e[2]>>, <<1, -1, 1, -1>>)>>
           /\ Sample(mem', (4 * g) + 2) =
                <<WrappedSum(<<a[1], b[2], c[1], e[2]>>, <<1, d, -1, -d>>),
                  WrappedSum(<<a[2], b[1], c[2], e[1]>>, <<1, -d, -1, d>>)>>
           /\ Sample(mem', (4 * g) + 3) =
                <<WrappedSum(<<a[1], b[2], c[1], e[2]>>, <<1, -d, -1, d>>),
                  WrappedSum(<<a[2], b[1], c[2], e[1]>>, <<1, d, -1, -d>>)>>

\* C25 as stated: the inverse engine is the forward engine with the signs of the
\* twiddle products exchanged and nothing else: every step of the inverse engine
\* stores what the forward engine's step stores, with the same shifts and the same
\* coefficient pairs, but with the real part (r * co) >> 32 - (s * si) >> 32 and the
\* imaginary part (s * co) >> 32 + (r * si) >> 32.
C25_MirrorsProductSignsOnly == [][InverseStepFromForward(1)]_vars

\* C25: the inverse engine has the forward engine's shifts (4 bits on the inputs
\* and << 1 in the first stage, >> 2 and >> 1 in the middle stages, none in the last)
\* and coefficient pairs, twiddles with the real part (r * co) >> 32 - (s * si) >> 32
\* and the imaginary part (s * co) >> 32 + (r * si) >> 32, and besides forms the
\* terms of its outputs at the third and fourth cursor, and the third and fourth
\* sample of a last-stage group, with yb - yd and xb - xd of the opposite sign.
C25_MirrorsProductsAndDifferences == [][InverseStepFromForward(-1)]_vars

\* C25 witness: the inverse engine has run butterfly 0 of its first stage on inputs
\* with yb # yd; sample N/2 holds the twiddled term (xa - xc) - (yb - yd), which is
\* not what the forward engine's term (xa - xc) + (yb - yd) gives
C25_Witness ==
  /\ pc[1] = "inv_first"
  /\ FirstDone = 1
  /\ FirstShifted(orig, 0, 1, 1) # FirstShifted(orig, 0, 3, 1)
  /\ LET at == arg[1].pSrc + (2 * (2 * (CurS(1).fftLen \div 4)))
         w  == TwidPair(0)
         ti == FirstTerms(orig, 0, 2, -1)
         tf == FirstTerms(orig, 0, 2, 1)
     IN  /\ mem[at] = 2 * (Hi(ti[1], w[1]) - Hi(ti[2], w[2]))
         /\ mem[at] # 2 * (Hi(tf[1], w[1]) - Hi(tf[2], w[2]))

\* memory m with the real and the imaginary part of every sample of caller 1's
\* buffer exchanged
PartsExchanged(m) ==
  [i \in DOMAIN m |->
     LET o == i - arg[1].pSrc
     IN  IF o >= 0 /\ o < 2 * CurS(1).fftLen
           THEN m[arg[1].pSrc + (IF o % 2 = 0 THEN o + 1 ELSE o - 1)]
           ELSE m[i]]

\* the forward engine run on memory m with the arguments of caller 1's call
ForwardEngineOn(m) ==
  riscv_radix4_butterfly_q31(m, arg[1].pSrc, CurS(1).fftLen, twiddleCoef,
                             CurS(1).pTwiddle, CurS(1).twidCoefModifier)

\* caller 1's call has come back from engine e
EngineReturned(e) == pc[1] = "bitrev_check" /\ obs[1].engines = <<e>>

\* the forward engine's butterfly for the loop caller 1's inverse engine is in,
\* at the same cursors and with the same coefficients, on memory m
ForwardButterflyOn(m) ==
  CASE pc[1] = "inv_first" -> FwdFirstButterfly(m, twiddleCoef, loc[1])
    [] pc[1] = "inv_middle" -> FwdMiddleButterfly(m, loc[1])
    [] pc[1] = "inv_last" -> FwdLastButterfly(m, loc[1])

\* C26: whatever the buffer, the table and the stride, for N = 4^k, k >= 1, the
\* inverse engine gives, word for word, what this sequence gives: exchange the real
\* and imaginary part of every sample, run the forward engine, exchange the real and
\* imaginary part of every sample again.  It holds of every loop iteration of the
\* inverse engine against the forward engine's iteration at the same place, and
\* (compared for the lengths up to 256) of the memory at return
\* against the whole forward engine run on the original buffer.
C26_InverseIsForwardOnExchangedParts ==
  [][/\ pc[1] \in {"inv_first", "inv_middle", "inv_last"} =>
          \A ex \in {PartsExchanged(mem)} :
            \A fw \in {ForwardButterflyOn(ex)} : mem' = PartsExchanged(fw)
     /\ (pc[1] = "inv_last" /\ pc'[1] = "bitrev_check" /\ CurS(1).fftLen <= 256) =>
          \A ex \in {PartsExchanged(orig)} :
            \A fw \in {ForwardEngineOn(ex)} : mem' = PartsExchanged(fw)]_vars

\* C26 witness: the inverse engine has returned from a 64-point transform through a
\* table of arbitrary words with stride 16, and its result is not what the forward
\* engine gives on the same buffer
C26_Witness ==
  /\ EngineReturned("inv")
  /\ CurS(1).fftLen = 64
  /\ CurS(1).twidCoefModifier = 16
  /\ twiddleCoef = ScrambledTable
  /\ \A fw \in {ForwardEngineOn(orig)} : mem # fw

\* the loop iteration caller 1's engine is about to run, on memory m
IterationOn(m) ==
  CASE pc[1] = "fwd_first" -> FwdFirstButterfly(m, twiddleCoef, loc[1])
    [] pc[1] = "fwd_middle" -> FwdMiddleButterfly(m, loc[1])
    [] pc[1] = "fwd_last" -> FwdLastButterfly(m, loc[1])
    [] pc[1] = "inv_first" -> InvFirstButterfly(m, twiddleCoef, loc[1])
    [] pc[1] = "inv_middle" -> InvMiddleButterfly(m, loc[1])
    [] pc[1] = "inv_last" -> InvLastButterfly(m, loc[1])

InEngine == InFirstStage \/ InMiddleStage \/ InLastStage

\* memory m with every word outside caller 1's buffer replaced by v
OutsideSetTo(m, v) ==
  [i \in DOMAIN m |->
     IF i < arg[1].pSrc \/ i > arg[1].pSrc + (2 * CurS(1).fftLen) - 1 THEN v ELSE m[i]]

\* C27: for N = 4^k, k >= 1, in every loop iteration of either engine, in any stage,
\* the words the iteration works on (two at each of the four cursors, or the eight
\* at ptr1) have offsets 0 .. 2N - 1 from pSrc; the iteration changes no word
\* outside the buffer and what it leaves in the buffer does not depend on any word
\* outside it; a cursor that has moved past the end is not used again.
C27_AccessesInsideBuffer ==
  [][InEngine =>
       LET lo == arg[1].pSrc
           hi == arg[1].pSrc + (2 * CurS(1).fftLen) - 1
           used == IF InLastStage THEN {loc[1].ptr1 + c : c \in 0..7}
                   ELSE {Cursors[n] + c : n \in 1..4, c \in 0..1}
       IN  /\ \A a \in used : lo <= a /\ a <= hi
           /\ \A i \in DOMAIN mem : (i < lo \/ i > hi) => mem'[i] = mem[i]
           /\ \A other \in {OutsideSetTo(mem, 0)} :
                \A r \in {IterationOn(other)} : \A i \in lo..hi : r[i] = mem'[i]
           /\ obs'[1].maxIdx <= (2 * CurS(1).fftLen) - 1]_vars

\* C27 witness: the forward engine has returned from a 16-point transform; the
\* fourth first-stage cursor and the last-stage cursor both stand at offset 2N, one
\* past the end of the buffer, the last word of the buffer has been worked on and
\* the words behind it are as they were
C27_Witness ==
  /\ EngineReturned("fwd")
  /\ CurS(1).fftLen = 16
  /\ loc[1].pSi3 = arg[1].pSrc + 32
  /\ loc[1].ptr1 = arg[1].pSrc + 32
  /\ obs[1].maxIdx = 31
  /\ \A i \in DOMAIN mem : i > 31 => mem[i] = orig[i]

\* the four complex samples of butterfly b (b = 0 .. N/4 - 1, in the order the loops
\* run them) of the stage caller 1's engine is in
SamplesOf(b) ==
  LET N == CurS(1).fftLen
  IN  IF InFirstStage THEN {b + (k * (N \div 4)) : k \in 0..3}
      ELSE IF InLastStage THEN {(4 * b) + k : k \in 0..3}
      ELSE LET reps == Pow2(2 * MiddleStages(1))
               n1 == N \div reps
               i0 == (b \div reps) + ((b % reps) * n1)
           IN  {i0 + (k * (n1 \div 4)) : k \in 0..3}

\* the complex samples the iteration caller 1's engine is about to run works on
SamplesAtCursors ==
  IF InLastStage THEN {((loc[1].ptr1 - arg[1].pSrc) \div 2) + k : k \in 0..3}
  ELSE {(Cursors[n] - arg[1].pSrc) \div 2 : n \in 1..4}

\* memory m with every sample of caller 1's buffer outside the set keep zeroed
OtherSamplesZeroed(m, keep) ==
  [i \in DOMAIN m |->
     LET o == i - arg[1].pSrc
     IN  IF o >= 0 /\ o < 2 * CurS(1).fftLen /\ (o \div 2) \notin keep THEN 0 ELSE m[i]]

\* C28: for N = 4^k, k >= 2, in each stage of either engine, butterfly b of the
\* stage works on four samples that no earlier butterfly of the stage has worked
\* on, changes these four samples only, and leaves in them values that depend on
\* no other sample; the four-sample sets of the N/4 butterflies of the stage
\* together are all the N samples.
C28_ButterfliesPartitionBuffer ==
  [][(InEngine /\ CurS(1).fftLen >= 16) =>
       LET N == CurS(1).fftLen
           b == StageDone
           own == SamplesOf(b)
       IN  /\ b < N \div 4
           /\ SamplesAtCursors = own
           /\ Cardinality(own) = 4
           /\ \A e \in 0..(b - 1) : SamplesOf(e) \cap own = {}
           /\ \A n \in 0..(N - 1) : n \notin own => Sample(mem', n) = Sample(mem, n)
           /\ \A other \in {OtherSamplesZeroed(mem, own)} :
                \A r \in {IterationOn(other)} : \A n \in own : Sample(r, n) = Sample(mem', n)
           /\ b = (N \div 4) - 1 =>
                UNION {SamplesOf(e) : e \in 0..b} = 0..(N - 1)]_vars

\* C28 witness: the inverse engine is at the last butterfly of the middle stage of a
\* 64-point transform, the one on samples 51, 55, 59 and 63, the only samples that
\* the 15 butterflies before it have left alone
C28_Witness ==
  /\ pc[1] = "inv_middle"
  /\ CurS(1).fftLen = 64
  /\ StageDone = 15
  /\ SamplesAtCursors = {51, 55, 59, 63}
  /\ UNION {SamplesOf(e) : e \in 0..14} = (0..63) \ {51, 55, 59, 63}

\* the largest pair index the claim allows a length-N transform with stride M
TopPair == 3 * ((CurS(1).fftLen \div 4) - 1) * CurS(1).twidCoefModifier

\* the table of caller 1's call with every pair above index n zeroed
PairsAboveZeroed(n) ==
  [i \in DOMAIN twiddleCoef |->
     IF i > CurS(1).pTwiddle + (2 * n) + 1 THEN 0 ELSE twiddleCoef[i]]

\* C29: during a length-N transform (N = 4^k, k >= 2) of either engine with the
\* descriptor's stride M, first-stage butterfly i reads the pairs at i*M, 2*i*M and
\* 3*i*M, the last of them, i = N/4 - 1, the pair at 3*(N/4 - 1)*M; the pairs a
\* middle stage holds were read at indexes of at most that; no iteration and no
\* loop control reads a pair above it (with the pairs above zeroed they give the
\* same memory and the same locals), and the largest index read so far never
\* exceeds it and equals it once the first stage is done.
C29_TwiddleIndexBound ==
  [][(InEngine /\ CurS(1).fftLen >= 16) =>
       /\ InFirstStage =>
            /\ loc[1].ia1 = FirstDone * CurS(1).twidCoefModifier
            /\ 3 * loc[1].ia1 <= TopPair
            /\ FirstDone = (CurS(1).fftLen \div 4) - 1 => 3 * loc[1].ia1 = TopPair
       /\ InMiddleStage =>
            /\ loc[1].ia3 <= TopPair
            /\ loc[1].ia2 <= loc[1].ia3
       /\ \A cut \in {PairsAboveZeroed(TopPair)} :
            /\ pc[1] = "fwd_first" => /\ mem' = FwdFirstButterfly(mem, cut, loc[1])
                                      /\ loc'[1] = AfterFirstIter(loc[1], cut).l
            /\ pc[1] = "inv_first" => /\ mem' = InvFirstButterfly(mem, cut, loc[1])
                                      /\ loc'[1] = AfterFirstIter(loc[1], cut).l
            /\ InMiddleStage => loc'[1] = AfterMiddleIter(loc[1], cut).l
       /\ obs'[1].maxTw <= TopPair
       /\ (~InFirstStage') => obs'[1].maxTw = TopPair]_vars

\* C29 witness: the inverse engine has returned from a 64-point transform through a
\* table of arbitrary words with stride 16: the largest index it read is 720, in
\* the first stage; the last pairs its middle stage read were those at 192, 384
\* and 576
C29_Witness ==
  /\ EngineReturned("inv")
  /\ CurS(1).fftLen = 64
  /\ CurS(1).twidCoefModifier = 16
  /\ twiddleCoef = ScrambledTable
  /\ obs[1].maxTw = 720
  /\ loc[1].ia2 = 384
  /\ loc[1].ia3 = 576

\* C30: for N in {16, 64, 256, 1024}, whatever the table holds, when either engine
\* returns from a buffer whose samples were all (c, d), sample 0 holds exactly
\* (16 * (c >> 4), 16 * (d >> 4)) and every other sample holds exactly (0, 0).
C30_ConstantInput ==
  (pc[1] = "bitrev_check" /\ \A n \in 0..(CurS(1).fftLen - 1) : Sample(orig, n) = Sample(orig, 0)) =>
    /\ Sample(mem, 0) = <<16 * (orig[0] \div 16), 16 * (orig[1] \div 16)>>
    /\ \A n \in 1..(CurS(1).fftLen - 1) : Sample(mem, n) = <<0, 0>>

\* C30 witness: the inverse engine has returned from a 1024-point transform of the
\* constant (2^31 - 1, -2^31) through a table of arbitrary words, leaving
\* (2^31 - 16, -2^31) in sample 0 and nothing in sample 1
C30_Witness ==
  /\ EngineReturned("inv")
  /\ CurS(1).fftLen = 1024
  /\ twiddleCoef[1] # twiddleCoef[3]
  /\ \A n \in 0..1023 : Sample(orig, n) = <<MaxInt32, MinInt32>>
  /\ Sample(mem, 0) = <<2147483632, MinInt32>>
  /\ Sample(mem, 1) = <<0, 0>>

====
